---- MODULE Spec2Model ----
(***************************************************************************)
(* State-machine model of the TxSim simulation engines:                    *)
(*   kind A: simulateTransaction / executeSimulation over AnvilService     *)
(*   kind B: simulateWasmTransaction / executeWasmSimulation over          *)
(*           ChopsticksService                                             *)
(* Every await of the source is one step of the calling process; the fork  *)
(* daemons are the environment, and each RPC may succeed or raise.         *)
(***************************************************************************)
EXTENDS Integers, Sequences, FiniteSets, TLC

\* Concurrent callers (one per inbound HTTP request).
Procs == {"p1", "p2"}

\* Total number of simulate calls started in one behaviour.
MaxCalls == 2

Backends == {"anvil", "chopsticks"}

---------------------------------------------------------------------------
\* Generic helpers

\* Record l with the fields of upd overwritten.
Merge(l, upd) == upd @@ l

SeqToSet(s) == {s[i] : i \in DOMAIN s}

Contains(s, e) == \E i \in DOMAIN s : s[i] = e

\* Append e unless already present (Set.add / Map.set of a new key).
AddUnique(s, e) == IF Contains(s, e) THEN s ELSE Append(s, e)

RECURSIVE AddAll(_, _)
AddAll(s, es) == IF es = <<>> THEN s ELSE AddAll(AddUnique(s, Head(es)), Tail(es))

\* String.prototype.toLowerCase on the addresses and selectors the model uses.
toLowerCase(a) ==
    CASE a = "S" -> "s"
      [] a = "0xA9059CBB" -> "0xa9059cbb"
      [] a = "0x23B872DD" -> "0x23b872dd"
      [] a = "T" -> "t"
      [] a = "R" -> "r"
      [] a = "X" -> "x"
      [] a = "U" -> "u"
      [] OTHER -> a

LAddrs == {"s", "t", "r", "x"}

---------------------------------------------------------------------------
\* The Anvil fork (environment of backend A)

\* State of the fork right after AnvilService.connect(): the fork block.
AnvilOrigin ==
    [block  |-> 7,
     native |-> [a \in LAddrs |-> IF a = "s" THEN 20 ELSE IF a = "x" THEN 3 ELSE 0],
     token  |-> [a \in LAddrs |-> IF a = "s" THEN 5 ELSE IF a = "x" THEN 2 ELSE 0]]

\* Gas price the fork itself quotes (eth_gasPrice on the fork).
ForkGasPrices == {1}

\* Gas prices the live upstream RPC may quote.
LiveGasPrices == {1, 2}

GasUsedOf(behaviour) == IF behaviour = "plain" THEN 1 ELSE 2

\* What the contract at `to` does with the transaction.
\*   plain : native value transfer, no logs
\*   toR   : token transfer sender -> R, one Transfer log
\*   toX   : token transfer sender -> X out of an allowance: an Approval log,
\*           then a Transfer log
\*   revert: mined with status 0, no logs
Behaviours == {"plain", "toR", "toX", "revert"}

TxStatus(tx) == IF tx.behaviour = "revert" THEN 0 ELSE 1

TxDest(tx) == IF tx.behaviour = "toR" THEN "r" ELSE "x"

\* Mining one transaction on the fork.
ApplyTx(st, tx) ==
    LET ok   == TxStatus(tx) = 1
        from == toLowerCase(tx.from)
        to   == toLowerCase(tx.to)
        cost == GasUsedOf(tx.behaviour) * tx.gasPrice
        val  == IF ok THEN tx.value ELSE 0
        moves == ok /\ tx.behaviour \in {"toR", "toX"}
    IN [block  |-> st.block + 1,
        native |-> [a \in LAddrs |->
                      st.native[a]
                      - (IF a = from THEN cost + val ELSE 0)
                      + (IF a = to THEN val ELSE 0)],
        token  |-> [a \in LAddrs |->
                      st.token[a]
                      - (IF moves /\ a = from THEN 1 ELSE 0)
                      + (IF moves /\ a = TxDest(tx) THEN 1 ELSE 0)]]

\* The logs of the receipt, in the order of their index in the block.
TxLogs(tx) ==
    IF TxStatus(tx) = 1 /\ tx.behaviour = "toR"
    THEN <<[event |-> "Transfer", address |-> tx.to, index |-> 0,
            from |-> tx.from, to |-> "R"]>>
    ELSE IF TxStatus(tx) = 1 /\ tx.behaviour = "toX"
    THEN <<[event |-> "Approval", address |-> tx.to, index |-> 0,
            owner |-> tx.from, spender |-> tx.to],
           [event |-> "Transfer", address |-> tx.to, index |-> 1,
            from |-> tx.from, to |-> "X"]>>
    ELSE <<>>

TxReceipt(tx) ==
    [status |-> TxStatus(tx), gasUsed |-> GasUsedOf(tx.behaviour),
     gasPrice |-> tx.gasPrice, logs |-> TxLogs(tx)]

---------------------------------------------------------------------------
\* Errors.  message: the text; embeds: the messages of the errors the text
\* interpolates (`${revertError}`, `${error.message}`), transitively.

RpcError(what) == [message |-> what, embeds |-> {}]

IsFatal(e) == e.message \in {"FATAL: Failed to revert to snapshot for historical balance lookup",
                             "FATAL: Failed to revert snapshot - state may be corrupted",
                             "FATAL: State cleanup failed - both revert and reset failed",
                             "FATAL: State cleanup failed after transaction failure",
                             "FATAL: State cleanup failed after successful transaction",
                             "FATAL: State cleanup failed after simulation error"}

\* `${e}` / e.message inside another message names e and all e names.
Naming(e) == {e.message} \cup e.embeds

---------------------------------------------------------------------------
\* JavaScript values handed to the error decoders.  An object is a record of its
\* own properties; null, undefined and the primitives are records with the one
\* tag field js.  The result of a call that throws is [threw |-> the error's name].

JsNull == [js |-> "null"]

JsUndefined == [js |-> "undefined"]

JsString(s) == [js |-> "string", value |-> s]

IsNullish(v) == "js" \in DOMAIN v /\ v.js \in {"null", "undefined"}

IsObject(v) == "js" \notin DOMAIN v

\* v.f is a truthy value; a property read off a primitive is undefined.
Has(v, f) == IsObject(v) /\ f \in DOMAIN v

\* v.f === true, for the boolean is* probes of a DispatchError.
Flag(v, f) == Has(v, f) /\ v[f] = TRUE

Threw(result) == "threw" \in DOMAIN result

\* Object.keys: the own enumerable properties; the message and stack of an Error
\* instance are not enumerable.
ObjectKeys(v) == IF "stack" \in DOMAIN v THEN {} ELSE DOMAIN v

\* An object with no property.
NoProps == [k \in {} |-> 0]

\* JSON.stringify: a string that spells the value; undefined for undefined.
JSONstringify(v) == <<"JSON", v>>

---------------------------------------------------------------------------
\* error-decoder (kind A).  A data payload is a hex string: its first ten
\* characters (the selector), its length, and what the ABI decoder makes of the
\* rest (<<>>: the decoder raises).

PanicSelector == "0x4e487b71"

RevertSelector == "0x08c379a0"

\* selector -> error name of CUSTOM_ERRORS
CUSTOM_ERRORS == [s \in {"0xe450d38c", "0xfb8f41b2"} |->
                    IF s = "0xe450d38c" THEN "InsufficientBalance" ELSE "InsufficientAllowance"]

\* Panic codes with a catalogued meaning.
PANIC_CODES == {"0x01", "0x11", "0x12"}

\* The data="0x..." an ethers message embeds, if any.
EmbeddedData(message) ==
    IF message = "call exception data=\"0x08c379a0..\""
    THEN <<[selector |-> RevertSelector, length |-> 138, arg |-> <<"Nope">>]>>
    ELSE <<>>

\* cleanErrorMessage: a quoted revert reason is extracted; a bare "execution
\* reverted" is reworded; other messages of the model carry no "Error: " prefix.
cleanErrorMessage(msg) ==
    CASE msg = "execution reverted: \"Nope\"" -> "Nope"
      [] msg = "execution reverted" -> "Transaction reverted"
      [] OTHER -> msg

\* extractErrorData: data is <<>> for null.  Reading a property of null or
\* undefined throws a TypeError.
extractErrorData(error) ==
    IF IsNullish(error) THEN [threw |-> "TypeError"]
    ELSE IF Has(error, "data") /\ error.data.length > 0 THEN [data |-> <<error.data>>]
    ELSE IF Has(error, "info") /\ Has(error.info, "error") /\ Has(error.info.error, "data")
         THEN [data |-> <<error.info.error.data>>]
    ELSE IF Has(error, "error") /\ Has(error.error, "data")
         THEN [data |-> <<error.error.data>>]
    ELSE IF Has(error, "message") THEN [data |-> EmbeddedData(error.message)]
    ELSE [data |-> <<>>]

decodePanic(data) ==
    [type |-> "panic",
     message |-> IF data.arg = <<>> THEN <<"Panic: Unable to decode panic code">>
                 ELSE IF data.arg[1] \in PANIC_CODES THEN <<"Panic: ", "meaning", data.arg[1]>>
                 ELSE <<"Panic: ", "Unknown panic code: ", data.arg[1]>>,
     raw |-> data]

decodeRevertReason(data) ==
    [type |-> "revert",
     message |-> IF data.arg = <<>> THEN "Transaction reverted (unable to decode reason)"
                 ELSE IF data.arg[1] = "" THEN "Transaction reverted"
                 ELSE data.arg[1],
     raw |-> data]

\* <<>> is null: the selector is not in CUSTOM_ERRORS.
decodeCustomError(selector, data) ==
    IF selector \notin DOMAIN CUSTOM_ERRORS THEN <<>>
    ELSE <<[type |-> "custom",
            message |-> IF data.arg = <<>> THEN <<CUSTOM_ERRORS[selector]>>
                        ELSE <<CUSTOM_ERRORS[selector], data.arg[1]>>,
            raw |-> data]>>

parseErrorFallback(error) ==
    IF Has(error, "reason") THEN [type |-> "revert", message |-> error.reason]
    ELSE IF Has(error, "info") /\ Has(error.info, "error") /\ Has(error.info.error, "message")
         THEN [type |-> "unknown", message |-> cleanErrorMessage(error.info.error.message)]
    ELSE IF Has(error, "message")
         THEN [type |-> "unknown", message |-> cleanErrorMessage(error.message)]
    ELSE [type |-> "unknown", message |-> "Unknown error occurred"]

decodeEVMError(error) ==
    LET extracted == extractErrorData(error)
    IN IF Threw(extracted) THEN extracted
       ELSE LET data == extracted.data
            IN IF data # <<>> /\ data[1].length >= 10
               THEN CASE data[1].selector = PanicSelector -> decodePanic(data[1])
                      [] data[1].selector = RevertSelector -> decodeRevertReason(data[1])
                      [] decodeCustomError(data[1].selector, data[1]) # <<>> ->
                             decodeCustomError(data[1].selector, data[1])[1]
                      [] OTHER -> parseErrorFallback(error)
               ELSE parseErrorFallback(error)

---------------------------------------------------------------------------
\* Map<K, V> with insertion order.

EmptyMap == [keys |-> <<>>, val |-> [k \in {} |-> 0]]

MapHas(m, k) == k \in DOMAIN m.val

MapSet(m, k, v) ==
    [keys |-> AddUnique(m.keys, k),
     val  |-> (k :> v) @@ m.val]

---------------------------------------------------------------------------
\* Kind A pure helpers

NoData == [selector |-> "", length |-> 0, slot1 |-> "", slot2 |-> ""]

\* 0xa9059cbb + 32-byte recipient R + 32-byte amount
TransferToR == [selector |-> "0xa9059cbb", length |-> 138, slot1 |-> "R", slot2 |-> ""]

\* a call with some other selector
OtherCall == [selector |-> "0x12345678", length |-> 10, slot1 |-> "", slot2 |-> ""]

isAddress(a) == a \in {"S", "T", "R", "X", "s", "t", "r", "x"}

\* Calldata is a hex string: `length` counts its characters ("0x" and the 8 of
\* the selector included), `slot1` stands for characters [34,74) and `slot2` for
\* characters [98,138), "" when the string ends before the slot does.
extractTransferRecipient(data) ==
    IF data.length = 0 \/ data.length < 10 THEN <<>>
    ELSE IF toLowerCase(data.selector) = "0xa9059cbb" /\ data.length >= 74
            /\ isAddress(data.slot1)
         THEN <<data.slot1>>
    ELSE IF toLowerCase(data.selector) = "0x23b872dd" /\ data.length >= 138
            /\ isAddress(data.slot2)
         THEN <<data.slot2>>
    ELSE <<>>

\* getTokenBalance: balanceOf on the token contract; a failing call gives 0.
getTokenBalance(st, tokenAddress, walletAddress) ==
    IF toLowerCase(tokenAddress) = "t" THEN st.token[toLowerCase(walletAddress)] ELSE 0

RECURSIVE TokenMap(_, _, _)
TokenMap(st, address, tokenAddresses) ==
    IF tokenAddresses = <<>> THEN EmptyMap
    ELSE LET n == Len(tokenAddresses)
             k == tokenAddresses[n]
         IN MapSet(TokenMap(st, address, SubSeq(tokenAddresses, 1, n - 1)),
                   toLowerCase(k), getTokenBalance(st, k, address))

\* captureBalances (kind A) when every read succeeds.
RECURSIVE captureBalances(_, _, _)
captureBalances(st, addresses, tokenAddresses) ==
    IF addresses = <<>> THEN EmptyMap
    ELSE LET n == Len(addresses)
             a == addresses[n]
         IN MapSet(captureBalances(st, SubSeq(addresses, 1, n - 1), tokenAddresses),
                   toLowerCase(a),
                   [native |-> st.native[toLowerCase(a)],
                    tokens |-> TokenMap(st, a, tokenAddresses)])

\* Events of the static catalogue that the model's contracts emit.
KnownEvents == {"Transfer", "Approval"}

\* decodeLog: <<>> is null (no catalogued interface parses the log).
decodeLog(log) ==
    IF log.event \in KnownEvents
    THEN <<[name |-> log.event, contract |-> toLowerCase(log.address),
            args |-> IF log.event = "Transfer"
                     THEN [from |-> toLowerCase(log.from), to |-> toLowerCase(log.to)]
                     ELSE [owner |-> toLowerCase(log.owner),
                           spender |-> toLowerCase(log.spender)],
            logIndex |-> log.index]>>
    ELSE <<>>

\* Variant of InsertByLogIndex: the comparator b.logIndex - a.logIndex.
RECURSIVE InsertByLogIndexDescending(_, _)
InsertByLogIndexDescending(sorted, e) ==
    IF sorted = <<>> THEN <<e>>
    ELSE IF sorted[Len(sorted)].logIndex >= e.logIndex THEN Append(sorted, e)
    ELSE Append(InsertByLogIndexDescending(SubSeq(sorted, 1, Len(sorted) - 1), e),
                sorted[Len(sorted)])

\* Array.prototype.sort by logIndex (stable), as an insertion into a sorted list.
RECURSIVE InsertByLogIndex(_, _)
InsertByLogIndex(sorted, e) ==
    IF sorted = <<>> THEN <<e>>
    ELSE IF sorted[Len(sorted)].logIndex <= e.logIndex THEN Append(sorted, e)
    ELSE Append(InsertByLogIndex(SubSeq(sorted, 1, Len(sorted) - 1), e),
                sorted[Len(sorted)])

RECURSIVE decodeLogs(_)
decodeLogs(logs) ==
    IF logs = <<>> THEN <<>>
    ELSE LET n    == Len(logs)
             rest == decodeLogs(SubSeq(logs, 1, n - 1))
             d    == decodeLog(logs[n])
         IN IF d = <<>> THEN rest ELSE InsertByLogIndex(rest, d[1])

\* Addresses named by Transfer events that are not yet tracked (lines 109-126).
RECURSIVE DiscoverAddresses(_, _)
DiscoverAddresses(events, tracked) ==
    IF events = <<>> THEN <<>>
    ELSE LET n    == Len(events)
             ev   == events[n]
             rest == DiscoverAddresses(SubSeq(events, 1, n - 1), tracked)
             f    == toLowerCase(ev.args.from)
             t    == toLowerCase(ev.args.to)
             r1   == IF ev.name = "Transfer" /\ ~Contains(tracked, f)
                     THEN AddUnique(rest, f) ELSE rest
         IN IF ev.name = "Transfer" /\ ~Contains(tracked, t)
            THEN AddUnique(r1, t) ELSE r1


---------------------------------------------------------------------------
\* State-impact builder (kind A)

MapGetOr(m, k, dflt) == IF MapHas(m, k) THEN m.val[k] ELSE dflt

RECURSIVE TokenRows(_, _)
TokenRows(tokens, keys) ==
    IF keys = <<>> THEN <<>>
    ELSE <<[contractAddress |-> Head(keys), balance |-> MapGetOr(tokens, Head(keys), 0)]>>
         \o TokenRows(tokens, Tail(keys))

RECURSIVE TokenChanges(_, _, _)
TokenChanges(before, after, keys) ==
    IF keys = <<>> THEN <<>>
    ELSE LET k == Head(keys)
             b == MapGetOr(before, k, 0)
             a == MapGetOr(after, k, 0)
         IN (IF a - b # 0
             THEN <<[contractAddress |-> k, before |-> b, after |-> a, delta |-> a - b]>>
             ELSE <<>>)
            \o TokenChanges(before, after, Tail(keys))

\* Variant of buildAddressState: only the BEFORE snapshot's tokens are listed.
buildAddressStateOfBeforeKeys(address, before, after) ==
    LET allTokens == before.tokens.keys
        nativeDelta == after.native - before.native
    IN [address |-> toLowerCase(address),
        before  |-> <<[contractAddress |-> "null", balance |-> before.native]>>
                    \o TokenRows(before.tokens, allTokens),
        after   |-> <<[contractAddress |-> "null", balance |-> after.native]>>
                    \o TokenRows(after.tokens, allTokens),
        changes |-> (IF nativeDelta # 0
                     THEN <<[contractAddress |-> "null", before |-> before.native,
                             after |-> after.native, delta |-> nativeDelta]>>
                     ELSE <<>>)
                    \o TokenChanges(before.tokens, after.tokens, allTokens)]


buildAddressState(address, before, after) ==
    LET allTokens == AddAll(before.tokens.keys, after.tokens.keys)
        nativeDelta == after.native - before.native
    IN [address |-> toLowerCase(address),
        before  |-> <<[contractAddress |-> "null", balance |-> before.native]>>
                    \o TokenRows(before.tokens, allTokens),
        after   |-> <<[contractAddress |-> "null", balance |-> after.native]>>
                    \o TokenRows(after.tokens, allTokens),
        changes |-> (IF nativeDelta # 0
                     THEN <<[contractAddress |-> "null", before |-> before.native,
                             after |-> after.native, delta |-> nativeDelta]>>
                     ELSE <<>>)
                    \o TokenChanges(before.tokens, after.tokens, allTokens)]

ZeroSnapshot == [native |-> 0, tokens |-> EmptyMap]

RECURSIVE ContractsAffected(_, _, _, _)
ContractsAffected(keys, excludeAddresses, balancesBefore, balancesAfter) ==
    IF keys = <<>> THEN <<>>
    ELSE LET address == Head(keys)
             rest == ContractsAffected(Tail(keys), excludeAddresses,
                                       balancesBefore, balancesAfter)
         IN IF address \in excludeAddresses \/ ~MapHas(balancesAfter, address)
            THEN rest
            ELSE LET state == buildAddressState(address, balancesBefore.val[address],
                                                balancesAfter.val[address])
                 IN IF Len(state.changes) > 0 THEN <<state>> \o rest ELSE rest

\* Variant of buildStateImpactReport: the recipient entry is always transaction.to.
buildStateImpactReportOfTo(sender, transactionTo, balancesBefore, balancesAfter, tokenRecipient) ==
    [sender    |-> buildAddressState(sender,
                      balancesBefore.val[toLowerCase(sender)],
                      balancesAfter.val[toLowerCase(sender)]),
     recipient |-> buildAddressState(transactionTo,
                      MapGetOr(balancesBefore, toLowerCase(transactionTo), ZeroSnapshot),
                      MapGetOr(balancesAfter, toLowerCase(transactionTo), ZeroSnapshot)),
     contractsAffected |->
         ContractsAffected(balancesBefore.keys,
                           {toLowerCase(sender), toLowerCase(transactionTo)},
                           balancesBefore, balancesAfter)]

\* tokenRecipient: <<>> for null, <<a>> for an extracted recipient.
buildStateImpactReport(sender, transactionTo, balancesBefore, balancesAfter, tokenRecipient) ==
    LET recipientAddress == IF tokenRecipient # <<>> THEN tokenRecipient[1] ELSE transactionTo
    IN [sender    |-> buildAddressState(sender,
                          balancesBefore.val[toLowerCase(sender)],
                          balancesAfter.val[toLowerCase(sender)]),
        recipient |-> buildAddressState(recipientAddress,
                          MapGetOr(balancesBefore, toLowerCase(recipientAddress), ZeroSnapshot),
                          MapGetOr(balancesAfter, toLowerCase(recipientAddress), ZeroSnapshot)),
        contractsAffected |->
            ContractsAffected(balancesBefore.keys,
                              {toLowerCase(sender), toLowerCase(recipientAddress)},
                              balancesBefore, balancesAfter)]

\* receipt: <<>> for null, <<r>> for a receipt.
calculateGasReport(receipt) ==
    IF receipt = <<>>
    THEN [gasUsed |-> 0, gasPrice |-> 0, totalCostWei |-> 0]
    ELSE [gasUsed |-> receipt[1].gasUsed, gasPrice |-> receipt[1].gasPrice,
          totalCostWei |-> receipt[1].gasUsed * receipt[1].gasPrice]

\* Variant of emptyStateReportA: the addresses as the request spells them.
emptyStateReportAsGiven(request) ==
    [sender    |-> [address |-> request.sender,
                    before |-> <<>>, after |-> <<>>, changes |-> <<>>],
     recipient |-> [address |-> request.to,
                    before |-> <<>>, after |-> <<>>, changes |-> <<>>],
     contractsAffected |-> <<>>]

emptyStateReportA(request) ==
    [sender    |-> [address |-> toLowerCase(request.sender),
                    before |-> <<>>, after |-> <<>>, changes |-> <<>>],
     recipient |-> [address |-> toLowerCase(request.to),
                    before |-> <<>>, after |-> <<>>, changes |-> <<>>],
     contractsAffected |-> <<>>]

emptyGasReportA == [gasUsed |-> 0, gasPrice |-> 0, totalCostWei |-> 0]

\* Variant of SuccessPathResponse: success whenever a receipt came back.
SuccessPathResponseIgnoringStatus(receipt, stateChanges, events) ==
    [success |-> receipt # <<>>, stateChanges |-> stateChanges,
     events |-> events, gas |-> calculateGasReport(receipt), error |-> <<>>]

\* Variant of SuccessPathResponse: the error field is never filled.
SuccessPathResponseWithoutError(receipt, stateChanges, events) ==
    [success |-> receipt # <<>> /\ receipt[1].status = 1, stateChanges |-> stateChanges,
     events |-> events, gas |-> calculateGasReport(receipt), error |-> <<>>]

\* The value returned by the try block (lines 189-199); error: <<>> is undefined.
SuccessPathResponse(receipt, stateChanges, events) ==
    LET success == receipt # <<>> /\ receipt[1].status = 1
    IN [success |-> success, stateChanges |-> stateChanges, events |-> events,
        gas |-> calculateGasReport(receipt),
        error |-> IF success THEN <<>>
                  ELSE <<[type |-> "revert", message |-> "Transaction reverted"]>>]

\* The value returned by the catch block (lines 200-209).
CatchResponseA(request, error) ==
    [success |-> FALSE, stateChanges |-> emptyStateReportA(request), events |-> <<>>,
     gas |-> emptyGasReportA, error |-> <<decodeEVMError(error)>>]


---------------------------------------------------------------------------
\* ChopsticksService and the Chopsticks fork (backend B).
\*   head: the fork's current head, as the number of blocks above the block
\*         the fork was started at (0 is the fork block);
\*   api, originalBlockHash: the service's fields; <<>> is null;
\*   propsCached: chainPropertiesCache is set.

ForkBlock == [head |-> 0]

\* Accounts of the forked chain, with system.account at the fork block.
WasmAddresses == {"Alice", "Bob", "Charlie"}

ForkAccounts ==
    [a \in WasmAddresses |->
        [nonce |-> 0,
         free |-> IF a = "Alice" THEN 5000 ELSE 1,
         reserved |-> IF a = "Alice" THEN 2 ELSE 0]]

\* The fee the runtime charges an extrinsic, and the reward it pays per block.
WasmFee == 1

\* The extrinsic the inherent of every block is (timestamp.set).
Inherent == [sender |-> "none", call |-> [form |-> "inherent"], nonce |-> 0,
             dispatch |-> "inherent"]

BlockHooks == [sender |-> "none", call |-> [form |-> "hooks"], nonce |-> 0,
               dispatch |-> "hooks"]

\* A raw event of the runtime; `of` records the extrinsic that emitted it.
RawEvent(section, method, data, of) ==
    [section |-> section, method |-> method, data |-> data,
     of |-> [sender |-> of.sender, call |-> of.call, nonce |-> of.nonce]]

\* What the runtime emits when it applies extrinsic xt.
ExtrinsicEvents(xt) ==
    IF xt.dispatch = "inherent"
    THEN <<RawEvent("system", "ExtrinsicSuccess", [weight |-> 1], xt)>>
    ELSE
    <<RawEvent("balances", "Withdraw", [who |-> xt.sender, amount |-> WasmFee], xt)>>
    \o (CASE xt.dispatch = "failed" ->
               <<RawEvent("system", "ExtrinsicFailed",
                          [dispatchError |-> [module |-> [index |-> 5, error |-> 2]]], xt)>>
          [] xt.dispatch = "transfer" ->
               <<RawEvent("balances", "Transfer",
                          [from |-> xt.sender, to |-> xt.call.args[1],
                           amount |-> xt.call.args[2]], xt),
                 RawEvent("balances", "Deposit", [who |-> "Charlie", amount |-> WasmFee], xt),
                 RawEvent("system", "ExtrinsicSuccess", [weight |-> 1], xt)>>
          [] xt.dispatch = "reserve" ->
               <<RawEvent("balances", "Reserved", [who |-> xt.sender, amount |-> 1], xt),
                 RawEvent("identity", "IdentitySet", [who |-> xt.sender], xt),
                 RawEvent("system", "ExtrinsicSuccess", [weight |-> 1], xt)>>)

\* The accounts after the balance movement one raw event reports.
ApplyEvent(accounts, e) ==
    IF e.section # "balances" THEN accounts
    ELSE CASE e.method = "Transfer" ->
                [accounts EXCEPT ![e.data.from].free = @ - e.data.amount,
                                 ![e.data.to].free = @ + e.data.amount]
           [] e.method = "Withdraw" ->
                [accounts EXCEPT ![e.data.who].free = @ - e.data.amount]
           [] e.method = "Deposit" ->
                [accounts EXCEPT ![e.data.who].free = @ + e.data.amount]
           [] e.method = "Reserved" ->
                [accounts EXCEPT ![e.data.who].free = @ - e.data.amount,
                                 ![e.data.who].reserved = @ + e.data.amount]
           [] OTHER -> accounts

RECURSIVE ApplyEvents(_, _)
ApplyEvents(accounts, events) ==
    IF events = <<>> THEN accounts
    ELSE ApplyEvents(ApplyEvent(accounts, Head(events)), Tail(events))

\* Event records of one phase (system.events storage entries).
InPhase(phase, events) == [i \in DOMAIN events |-> [phase |-> phase, event |-> events[i]]]

\* The block builder applies the pooled extrinsics in pool order after the
\* inherent (unsigned, index 0); an extrinsic whose nonce is not the sender's current nonce is
\* invalid and is left out of the block.
RECURSIVE ApplyPool(_, _, _, _)
ApplyPool(pool, accounts, index, records) ==
    IF pool = <<>> THEN [accounts |-> accounts, events |-> records]
    ELSE LET xt == Head(pool)
         IN IF xt.nonce # accounts[xt.sender].nonce
            THEN ApplyPool(Tail(pool), accounts, index, records)
            ELSE ApplyPool(Tail(pool),
                           ApplyEvents([accounts EXCEPT ![xt.sender].nonce = @ + 1],
                                       ExtrinsicEvents(xt)),
                           index + 1,
                           records \o InPhase([kind |-> "ApplyExtrinsic", n |-> index], ExtrinsicEvents(xt)))

\* dev_newBlock on parent state `parent` with transaction pool `pool`:
\* initialization hooks, the inherent at index 0, the pool, finalization hooks
\* (the block reward).
BuildBlock(parent, pool) ==
    LET init == <<RawEvent("balances", "Deposit", [who |-> "Bob", amount |-> 1], BlockHooks)>>
        fin == <<RawEvent("balances", "Deposit", [who |-> "Alice", amount |-> 1], BlockHooks)>>
        applied == ApplyPool(pool, ApplyEvents(parent.accounts, init), 1,
                             InPhase([kind |-> "Initialization"], init)
                             \o InPhase([kind |-> "ApplyExtrinsic", n |-> 0], ExtrinsicEvents(Inherent)))
    IN [accounts |-> ApplyEvents(applied.accounts, fin),
        events |-> applied.events \o InPhase([kind |-> "Finalization"], fin)]

\* The state of the fork block.
ForkState == [accounts |-> ForkAccounts, events |-> <<>>]

\* After the start-up connect() against the fresh fork.
\*   blocks: the states of the blocks from the fork block up to the head;
\*   pool: the fork's transaction pool.
ChopsticksConnected ==
    [head |-> ForkBlock.head, api |-> TRUE, originalBlockHash |-> <<ForkBlock.head>>,
     propsCached |-> FALSE, blocks |-> <<ForkState>>, pool |-> <<>>]

\* The state at the fork's head.
HeadState(c) == c.blocks[c.head + 1]

\* dev_setHead: the head moves to block h; the blocks above it are abandoned.
\* The transaction pool is not touched.
dev_setHead(c, h) == [c EXCEPT !.head = h, !.blocks = SubSeq(@, 1, h + 1)]

\* author_submitExtrinsic: the extrinsic joins the pool.
author_submitExtrinsic(c, xt) == [c EXCEPT !.pool = Append(@, xt)]

\* dev_newBlock: a block on top of the head, built from the whole pool.
dev_newBlock(c) ==
    [c EXCEPT !.head = @ + 1,
              !.blocks = Append(@, BuildBlock(HeadState(c), c.pool)),
              !.pool = <<>>]

\* disconnect(): clears the fields when an api exists.
disconnect(c) ==
    IF c.api THEN [c EXCEPT !.api = FALSE, !.originalBlockHash = <<>>] ELSE c

\* connect(): the outcomes of ApiPromise.create and of the header read.  The
\* header read returns the fork's current head, which becomes originalBlockHash.
ConnectResults(c) ==
    { [chop |-> [c EXCEPT !.api = TRUE, !.originalBlockHash = <<c.head>>],
       error |-> <<>>, ops |-> <<"connect">>],
      [chop |-> c,
       error |-> <<RpcError("ApiPromise.create failed")>>, ops |-> <<"connect-failed">>],
      [chop |-> [c EXCEPT !.api = TRUE],
       error |-> <<RpcError("getHeader failed")>>, ops |-> <<"connect-failed">>] }

\* disconnect() then connect() (lines 767-768 and 779-780).
Reconnect(c, ops) ==
    (IF c.api
     THEN {[chop |-> c, error |-> <<RpcError("api.disconnect failed")>>,
            ops |-> ops \o <<"disconnect-failed">>]}
     ELSE {})
    \cup
    { [r EXCEPT !.ops = ops \o <<"disconnect">> \o @] : r \in ConnectResults(disconnect(c)) }

\* reset(): dev_setHead to originalBlockHash; when it raises, or when no hash is
\* stored, disconnect and connect again.
ResetResults(c) ==
    IF c.originalBlockHash = <<>>
    THEN Reconnect(c, <<>>)
    ELSE { [chop |-> dev_setHead(c, c.originalBlockHash[1]),
            error |-> <<>>, ops |-> <<"setHead">>] }
         \cup Reconnect(c, <<"setHead-failed">>)

---------------------------------------------------------------------------
\* wasm-event-decoder and wasm-balance-tracker.

\* toHuman() of a number: its decimal digits in comma-separated groups of
\* three, as the sequence of the groups' values ("1,000" is <<1, 0>>).
RECURSIVE toHuman(_)
toHuman(n) == IF n < 1000 THEN <<n>> ELSE Append(toHuman(n \div 1000), n % 1000)

\* BigInt(s.replace(/,/g, "")): the number a grouped decimal string denotes.
RECURSIVE ParseAmount(_)
ParseAmount(groups) ==
    IF groups = <<>> THEN 0
    ELSE ParseAmount(SubSeq(groups, 1, Len(groups) - 1)) * 1000 + groups[Len(groups)]

\* toHuman() of an enum value: the variant name as declared, capitalised.
HumanVariant(v) ==
    IF "module" \in DOMAIN v
    THEN [Module |-> [index |-> toHuman(v.module.index), error |-> toHuman(v.module.error)]]
    ELSE v

\* formatEventValue on the fields of an event.
formatEventValue(field, value) ==
    CASE field \in {"amount", "weight"} -> toHuman(value)
      [] field = "dispatchError" -> HumanVariant(value)
      [] OTHER -> value

\* decodeWasmEvents: phase and event of every record; index is the position in
\* the block's event list.
decodeWasmEvents(events) ==
    [i \in DOMAIN events |->
        [phase |-> IF events[i].phase.kind = "ApplyExtrinsic"
                   THEN [type |-> "ApplyExtrinsic", value |-> <<events[i].phase.n>>]
                   ELSE [type |-> events[i].phase.kind, value |-> <<>>],
         event |-> [pallet |-> events[i].event.section,
                    method |-> events[i].event.method,
                    data |-> [f \in DOMAIN events[i].event.data |->
                                 formatEventValue(f, events[i].event.data[f])],
                    index |-> i - 1,
                    of |-> events[i].event.of]]]

RECURSIVE MapSeq(_, _)
\* The .event of every record, in order.
MapSeq(records, i) ==
    IF i > Len(records) THEN <<>> ELSE <<records[i].event>> \o MapSeq(records, i + 1)

\* getLastExtrinsicIndex: the largest ApplyExtrinsic value, -1 when there is none.
getLastExtrinsicIndex(events) ==
    LET values == {events[i].phase.value[1] : i \in
                     {j \in DOMAIN events : /\ events[j].phase.type = "ApplyExtrinsic"
                                            /\ events[j].phase.value # <<>>}}
    IN IF values = {} THEN -1 ELSE CHOOSE m \in values : \A v \in values : v <= m

filterEventsByExtrinsicIndex(events, extrinsicIndex) ==
    MapSeq(SelectSeq(events, LAMBDA e : /\ e.phase.type = "ApplyExtrinsic"
                                        /\ e.phase.value = <<extrinsicIndex>>), 1)

relevantPallets == {"balances", "assets", "tokens", "system", "transactionPayment"}

relevantMethods == {"Transfer", "Deposit", "Withdraw", "Reserved", "Unreserved",
                    "ExtrinsicSuccess", "ExtrinsicFailed"}

filterRelevantEvents(events) ==
    SelectSeq(events, LAMBDA e : e.pallet \in relevantPallets \/ e.method \in relevantMethods)

\* captureBalances of wasm-balance-tracker: a snapshot per address in order; an
\* address whose read fails (failing) gets the zero snapshot.  No asset is tracked.
RECURSIVE captureBalancesWasm(_, _, _)
captureBalancesWasm(accounts, addresses, failing) ==
    IF addresses = <<>> THEN EmptyMap
    ELSE LET n == Len(addresses)
             address == addresses[n]
         IN MapSet(captureBalancesWasm(accounts, SubSeq(addresses, 1, n - 1), failing),
                   address,
                   IF address \in failing
                   THEN [native |-> [free |-> 0, reserved |-> 0], assets |-> EmptyMap]
                   ELSE [native |-> [free |-> accounts[address].free,
                                     reserved |-> accounts[address].reserved],
                         assets |-> EmptyMap])

---------------------------------------------------------------------------
\* buildStateFromEvents and the responses of kind B.

AddDelta(balanceDeltas, address, amount) ==
    MapSet(balanceDeltas, address, MapGetOr(balanceDeltas, address, 0) + amount)

\* lines 345-371: the net native change per address, from the balances events.
RECURSIVE BalanceDeltas(_, _)
BalanceDeltas(events, balanceDeltas) ==
    IF events = <<>> THEN balanceDeltas
    ELSE LET e == Head(events)
             amount == ParseAmount(e.data.amount)
         IN CHOOSE result \in
              { BalanceDeltas(Tail(events), next) : next \in
                  { IF e.pallet # "balances" THEN balanceDeltas
                    ELSE CASE e.method = "Transfer" ->
                                CHOOSE d \in {AddDelta(debited, e.data.to, amount) : debited \in
                                                {AddDelta(balanceDeltas, e.data.from, 0 - amount)}} :
                                    TRUE
                           [] e.method = "Withdraw" ->
                                AddDelta(balanceDeltas, e.data.who, 0 - amount)
                           [] e.method = "Deposit" ->
                                AddDelta(balanceDeltas, e.data.who, amount)
                           [] OTHER -> balanceDeltas } } : TRUE

\* free + reserved of the BEFORE snapshot, 0 for an address without a snapshot.
TotalBefore(balancesBefore, address) ==
    IF MapHas(balancesBefore, address)
    THEN balancesBefore.val[address].native.free + balancesBefore.val[address].native.reserved
    ELSE 0

WasmAddressState(address, before, delta) ==
    [address |-> address,
     before |-> <<[assetId |-> <<>>, balance |-> before]>>,
     after |-> <<[assetId |-> <<>>, balance |-> before + delta]>>,
     changes |-> IF delta # 0
                 THEN <<[assetId |-> <<>>, before |-> before, after |-> before + delta,
                         delta |-> delta]>>
                 ELSE <<>>]

\* lines 459-507: the addresses of balanceDeltas in insertion order, other than
\* sender and recipient, whose delta is not zero.
RECURSIVE OtherAffected(_, _, _, _, _)
OtherAffected(keys, sender, recipient, balanceDeltas, balancesBefore) ==
    IF keys = <<>> THEN <<>>
    ELSE LET address == Head(keys)
             rest == OtherAffected(Tail(keys), sender, recipient, balanceDeltas, balancesBefore)
         IN IF address = sender \/ <<address>> = recipient \/ balanceDeltas.val[address] = 0
            THEN rest
            ELSE <<WasmAddressState(address, TotalBefore(balancesBefore, address),
                                    balanceDeltas.val[address])>> \o rest

\* buildStateFromEvents keeping a recipient whose delta is zero.
buildStateFromEventsKeepingRecipient(sender, recipient, events, balancesBefore) ==
    CHOOSE report \in
      { [sender |-> WasmAddressState(sender, TotalBefore(balancesBefore, sender),
                                     MapGetOr(balanceDeltas, sender, 0)),
         recipient |-> IF recipient # <<>>
                       THEN <<WasmAddressState(recipient[1],
                                               TotalBefore(balancesBefore, recipient[1]),
                                               MapGetOr(balanceDeltas, recipient[1], 0))>>
                       ELSE <<>>,
         otherAffected |-> OtherAffected(balanceDeltas.keys, sender, recipient,
                                         balanceDeltas, balancesBefore)]
        : balanceDeltas \in {BalanceDeltas(events, EmptyMap)} } : TRUE

\* buildStateFromEvents (lines 333-515); recipient is <<>> for null.
buildStateFromEvents(sender, recipient, events, balancesBefore) ==
    CHOOSE report \in
      { [sender |-> WasmAddressState(sender, TotalBefore(balancesBefore, sender),
                                     MapGetOr(balanceDeltas, sender, 0)),
         recipient |-> IF recipient # <<>> /\ MapGetOr(balanceDeltas, recipient[1], 0) # 0
                       THEN <<WasmAddressState(recipient[1],
                                               TotalBefore(balancesBefore, recipient[1]),
                                               MapGetOr(balanceDeltas, recipient[1], 0))>>
                       ELSE <<>>,
         otherAffected |-> OtherAffected(balanceDeltas.keys, sender, recipient,
                                         balanceDeltas, balancesBefore)]
        : balanceDeltas \in {BalanceDeltas(events, EmptyMap)} } : TRUE

\* lines 83-87
emptyStateReportB(sender) ==
    [sender |-> [address |-> sender, before |-> <<>>, after |-> <<>>, changes |-> <<>>],
     recipient |-> <<>>, otherAffected |-> <<>>]

\* api.registry.findMetaError returns the error's metadata or raises.
RuntimeApi == [findMetaError |-> "ok"]

\* The fields of the record decodeWasmError builds from decoded metadata.
MetaError(index, error) ==
    [type |-> "module", pallet |-> <<"section", index>>, error |-> <<"name", index, error>>,
     message |-> <<"findMetaError", index, error>>]

\* typeof val === "string" || typeof val === "number"
IsStringOrNumber(val) == "js" \in DOMAIN val /\ val.js \in {"string", "number"}

\* The probes of decodeWasmError on a plain object (lines 718-782 of the decoder);
\* <<>> when none of them returns.
PlainObjectError(api, error) ==
    IF Has(error, "module") /\ api.findMetaError = "ok"
    THEN <<[raw |-> JSONstringify(error)]
           @@ MetaError(error.module.index, error.module.error)>>
    ELSE IF Has(error, "token")
    THEN <<[type |-> "token", message |-> <<"Token Error: ", error.token>>,
            raw |-> JSONstringify(error)]>>
    ELSE IF Has(error, "arithmetic")
    THEN <<[type |-> "arithmetic", message |-> <<"Arithmetic Error: ", error.arithmetic>>,
            raw |-> JSONstringify(error)]>>
    ELSE IF Cardinality(ObjectKeys(error)) = 1
            /\ IsStringOrNumber(error[CHOOSE key \in ObjectKeys(error) : TRUE])
    THEN LET key == CHOOSE key \in ObjectKeys(error) : TRUE
         IN <<[type |-> key, message |-> <<key, ": ", error[key]>>,
               raw |-> JSONstringify(error)]>>
    ELSE <<>>

\* The isModule branch: a missing toHuman makes the try block raise after the
\* lookup; toHuman?.() || error is what the catch block serialises.
ModuleError(api, error) ==
    IF api.findMetaError = "ok" /\ Has(error, "toHuman")
    THEN [raw |-> JSONstringify(error.toHuman)]
         @@ MetaError(error.asModule.index, error.asModule.error)
    ELSE [type |-> "module", message |-> "Unknown module error",
          raw |-> JSONstringify(IF Has(error, "toHuman") /\ ~IsNullish(error.toHuman)
                                THEN error.toHuman ELSE error)]

decodeWasmError(api, error) ==
    IF IsObject(error) /\ ~Flag(error, "isModule") /\ ~Flag(error, "isBadOrigin")
       /\ PlainObjectError(api, error) # <<>>
    THEN PlainObjectError(api, error)[1]
    ELSE IF Flag(error, "isModule") THEN ModuleError(api, error)
    ELSE IF Flag(error, "isBadOrigin")
    THEN [type |-> "badOrigin",
          message |-> "Bad origin - caller not authorized for this action"]
    ELSE IF Flag(error, "isCannotLookup")
    THEN [type |-> "cannotLookup",
          message |-> "Cannot lookup - invalid account or reference"]
    ELSE IF Flag(error, "isOther")
    THEN [type |-> "other",
          message |-> IF Has(error, "asOther") THEN error.asOther ELSE "Other error"]
    ELSE IF "js" \in DOMAIN error /\ error.js = "string"
    THEN [type |-> "unknown", message |-> error.value]
    ELSE IF Has(error, "message")
    THEN [type |-> "unknown", message |-> error.message, raw |-> <<"toString", error>>]
    ELSE IF error = JsUndefined
    THEN [type |-> "unknown", message |-> "Unknown error occurred"]
    ELSE [type |-> "unknown", message |-> "Unknown error occurred",
          raw |-> JSONstringify(error)]

---------------------------------------------------------------------------
\* Token and asset metadata

TokenKeys == {"t", "u"}

AssetIds == {1, 2}

NoMetadata ==
    [tokenCache |-> EmptyMap,
     tokenQueries |-> [k \in TokenKeys |-> 0],
     assetQueries |-> [id \in AssetIds |-> 0]]

\* What symbol() and decimals() give: the contract's answers, or the defaults of
\* the two .catch handlers when the calls raise.
TokenAnswers == {[symbol |-> "TKN", decimals |-> 6], [symbol |-> "UNKNOWN", decimals |-> 18]}

\* getTokenMetadata: a cached entry is returned; otherwise symbol() and
\* decimals() are called on the contract and the result is cached.
getTokenMetadata(m, tokenAddress, answers) ==
    LET key == toLowerCase(tokenAddress)
    IN IF MapHas(m.tokenCache, key) THEN m
       ELSE [m EXCEPT !.tokenCache = MapSet(@, key, [address |-> key,
                                                     symbol |-> answers[key].symbol,
                                                     decimals |-> answers[key].decimals]),
                      !.tokenQueries[key] = @ + 1]

\* The loop of buildStateImpactReport over tokenAddresses (lines 31-37).
RECURSIVE TokenMetadataOf(_, _, _)
TokenMetadataOf(m, tokenAddresses, answers) ==
    IF tokenAddresses = <<>> THEN m
    ELSE TokenMetadataOf(getTokenMetadata(m, Head(tokenAddresses), answers),
                         Tail(tokenAddresses), answers)

\* getAssetMetadata: a new Map on every call, one assets.metadata query for each
\* asset id; the Map is dropped with the simulation.
RECURSIVE getAssetMetadata(_, _)
getAssetMetadata(m, assetIds) ==
    IF assetIds = <<>> THEN m
    ELSE getAssetMetadata([m EXCEPT !.assetQueries[Head(assetIds)] = @ + 1], Tail(assetIds))

\* const { sender, trackAssets = [] } = request
TrackAssetsOf(request) ==
    IF "trackAssets" \in DOMAIN request THEN request.trackAssets ELSE <<>>

---------------------------------------------------------------------------
\* State

VARIABLES
    pc,       \* pc[p]: where caller p stands in its simulate call
    req,      \* req[p]: the request of the call in progress
    loc,      \* loc[p]: the locals of the call in progress
    mutex,    \* mutex[b]: the async-mutex of backend b: locked flag, FIFO waiters
    anvil,    \* the Anvil fork: chain state and snapshot-id counter
    chop,     \* ChopsticksService fields and the Chopsticks fork's head
    calls,    \* number of simulate calls started
    target,   \* the backend the callers of this behaviour address; the two engines
              \* share no state, so a behaviour that mixes both kinds is an
              \* interleaving of a behaviour of each
    unrestored, \* unrestored[b]: a call on b rejected with a fatal restore failure
                \* and no restore on b has succeeded since (history variable)
    metadata  \* tokenCache of token-info.ts, and the number of metadata queries
              \* sent to the chain for each token and asset (history)

vars == <<pc, req, loc, mutex, anvil, chop, calls, target, metadata, unrestored>>

NoReq == [kind |-> "none"]

\* Requests of kind A, each with the behaviour of the contract at `to`.
RequestsA ==
    { [kind |-> "A", sender |-> "S", to |-> "T", value |-> 1, data |-> NoData,
       trackTokens |-> <<>>, behaviour |-> "plain"],
      [kind |-> "A", sender |-> "S", to |-> "T", value |-> 0, data |-> TransferToR,
       trackTokens |-> <<"T">>, behaviour |-> "toR"],
      [kind |-> "A", sender |-> "S", to |-> "T", value |-> 0, data |-> OtherCall,
       trackTokens |-> <<"T">>, behaviour |-> "toX"],
      [kind |-> "A", sender |-> "S", to |-> "T", value |-> 0, data |-> OtherCall,
       trackTokens |-> <<>>, behaviour |-> "toX"],
      [kind |-> "A", sender |-> "S", to |-> "T", value |-> 1, data |-> NoData,
       trackTokens |-> <<>>, behaviour |-> "revert"] }

\* pallet.method pairs the runtime has (api.tx[pallet][method]).
RuntimeCalls == {<<"balances", "transfer">>}

\* Methods whose lower-cased name contains "transfer".
TransferMethods == {"transfer", "transferKeepAlive", "forceTransfer"}

\* Requests of kind B, each with what the runtime does with the extrinsic.
RequestsB ==
    { [kind |-> "B", sender |-> "Alice",
       extrinsic |-> [form |-> "structured", pallet |-> "balances", method |-> "transfer",
                      args |-> <<"Bob", 1000>>],
       dispatch |-> "transfer"],
      [kind |-> "B", sender |-> "Alice",
       extrinsic |-> [form |-> "structured", pallet |-> "balances", method |-> "transfer",
                      args |-> <<"Bob", 0>>],
       dispatch |-> "transfer"],
      [kind |-> "B", sender |-> "Alice",
       extrinsic |-> [form |-> "structured", pallet |-> "foo", method |-> "bar",
                      args |-> <<>>],
       dispatch |-> "none"],
      [kind |-> "B", sender |-> "Bob",
       extrinsic |-> [form |-> "rawHex", rawHex |-> "0x01"],
       dispatch |-> "failed"],
      [kind |-> "B", sender |-> "Bob",
       extrinsic |-> [form |-> "rawHex", rawHex |-> "0x02"],
       dispatch |-> "reserve"] }

\* Locals of a call.  Optional values are <<>> (absent) or <<v>>.
\*   pre, snapState, bodyError, finalReceipt, injectedEvents are history: the fork
\*   state when the critical section was entered, the state evm_snapshot saved
\*   under snapshotId, the error the catch block caught, the receipt of the run's
\*   last execution, the events the produced block holds for the run's extrinsic;
\*   failedCapture: the last balance capture in which a native balance read
\*   raised: the addresses asked for, those whose read raised, and the map the
\*   capture returned (<<>> when the capture itself raised).
NoLoc ==
    [snapshotId |-> 0, snapState |-> <<>>, pre |-> <<>>, impersonating |-> FALSE,
     tracked |-> <<>>, extracted |-> <<>>, balancesBefore |-> EmptyMap,
     gasPrice |-> 0, receipt |-> <<>>, events |-> <<>>, newAddresses |-> <<>>,
     response |-> <<>>, thrown |-> <<>>, bodyError |-> <<>>, revertError |-> <<>>,
     recipient |-> <<>>, paymentInfo |-> <<>>, nonce |-> 0, ourEvents |-> <<>>,
     injectedEvents |-> <<>>, failedCapture |-> <<>>,
     balancesAfter |-> EmptyMap, finalReceipt |-> <<>>, ops |-> <<>>]

Init ==
    /\ pc = [p \in Procs |-> "idle"]
    /\ req = [p \in Procs |-> NoReq]
    /\ loc = [p \in Procs |-> NoLoc]
    /\ mutex = [b \in Backends |-> [locked |-> FALSE, queue |-> <<>>]]
    /\ anvil = [chain |-> AnvilOrigin, nextId |-> 1]
    /\ chop = ChopsticksConnected
    /\ calls = 0
    /\ target \in Backends
    /\ unrestored = [b \in Backends |-> FALSE]
    /\ metadata = NoMetadata

Set(p, upd) == loc' = [loc EXCEPT ![p] = Merge(@, upd)]

Op(p, name) == Append(loc[p].ops, name)

---------------------------------------------------------------------------
\* async-mutex: acquire() locks at once when free, else joins the FIFO queue;
\* release() hands the lock to the first waiter.

FirstPc(r) == IF r.kind = "A" THEN "a_snapshot" ELSE "b_reset"

\* Variant: acquire() that never waits.
AcquireWithoutWaiting(b, p, r) ==
    /\ mutex' = [mutex EXCEPT ![b].locked = TRUE]
    /\ pc' = [pc EXCEPT ![p] = FirstPc(r)]

Acquire(b, p, r) ==
    IF mutex[b].locked
    THEN /\ mutex' = [mutex EXCEPT ![b].queue = Append(@, p)]
         /\ pc' = [pc EXCEPT ![p] = "wait"]
    ELSE /\ mutex' = [mutex EXCEPT ![b].locked = TRUE]
         /\ pc' = [pc EXCEPT ![p] = FirstPc(r)]

\* Variant: release() is skipped when the run threw.
ReleaseUnlessThrown(b, p) ==
    IF loc[p].thrown # <<>>
    THEN /\ pc' = [pc EXCEPT ![p] = "idle"]
         /\ UNCHANGED mutex
    ELSE IF mutex[b].queue = <<>>
    THEN /\ mutex' = [mutex EXCEPT ![b].locked = FALSE]
         /\ pc' = [pc EXCEPT ![p] = "idle"]
    ELSE LET q == Head(mutex[b].queue)
         IN /\ mutex' = [mutex EXCEPT ![b].queue = Tail(@)]
            /\ pc' = [pc EXCEPT ![p] = "idle", ![q] = FirstPc(req[q])]

Release(b, p) ==
    IF mutex[b].queue = <<>>
    THEN /\ mutex' = [mutex EXCEPT ![b].locked = FALSE]
         /\ pc' = [pc EXCEPT ![p] = "idle"]
    ELSE LET q == Head(mutex[b].queue)
         IN /\ mutex' = [mutex EXCEPT ![b].queue = Tail(@)]
            /\ pc' = [pc EXCEPT ![p] = "idle", ![q] = FirstPc(req[q])]

---------------------------------------------------------------------------
\* Kind A: simulateTransaction / executeSimulation

\* simulateTransaction up to `await mutex.acquire()`.
CallA(p) ==
    /\ pc[p] = "idle"
    /\ calls < MaxCalls
    /\ target = "anvil"
    /\ \E r \in RequestsA :
         /\ req' = [req EXCEPT ![p] = r]
         /\ Acquire("anvil", p, r)
    /\ calls' = calls + 1
    /\ UNCHANGED <<target, metadata>>
    /\ UNCHANGED <<loc, anvil, chop, unrestored>>

\* Variant of evm_revert: answers true without restoring the snapshot.
evm_revertWithoutRestoring(chain, snapState) == chain

\* evm_revert answering true: the fork is back at the state saved by evm_snapshot.
evm_revert(chain, snapState) == snapState

\* The catch block: the response it returns, then the finally block.
Catch(p, error, upd) ==
    Set(p, upd @@ [response |-> <<CatchResponseA(req[p], error)>>,
                   bodyError |-> <<error>>])

\* Variant of AfterBody: the finally block skips stopImpersonating.
AfterBodyWithoutStop(impersonating) == "a_revert"

AfterBody(impersonating) == IF impersonating THEN "a_stop" ELSE "a_revert"

\* line 38: anvilService.snapshot(), outside the try.
A_Snapshot(p) ==
    /\ pc[p] = "a_snapshot"
    /\ \/ /\ Set(p, [snapshotId |-> anvil.nextId, snapState |-> <<anvil.chain>>,
                     pre |-> <<anvil.chain>>, ops |-> Op(p, "snapshot")])
          /\ anvil' = [anvil EXCEPT !.nextId = @ + 1]
          /\ pc' = [pc EXCEPT ![p] = "a_before"]
       \/ /\ Set(p, [thrown |-> <<RpcError("evm_snapshot failed")>>,
                     pre |-> <<anvil.chain>>, ops |-> Op(p, "snapshot")])
          /\ pc' = [pc EXCEPT ![p] = "a_return"]
          /\ UNCHANGED anvil
    /\ UNCHANGED <<req, mutex, chop, calls, target, metadata, unrestored>>

InitialTracked(r) ==
    LET base == AddUnique(<<toLowerCase(r.sender)>>, toLowerCase(r.to))
        ext  == extractTransferRecipient(r.data)
    IN IF ext # <<>> THEN AddUnique(base, toLowerCase(ext[1])) ELSE base

\* Variant of A_Before: the sender is impersonated before the BEFORE capture.
A_BeforeAfterImpersonating(p) ==
    /\ pc[p] = "a_before"
    /\ \E tracked \in {InitialTracked(req[p])} :
       \E balancesBefore \in {captureBalances(anvil.chain, tracked, req[p].trackTokens)} :
          /\ Set(p, [tracked |-> tracked,
                     extracted |-> extractTransferRecipient(req[p].data),
                     balancesBefore |-> balancesBefore,
                     impersonating |-> TRUE,
                     ops |-> loc[p].ops \o <<"impersonate", "getSigner", "captureBefore">>])
          /\ pc' = [pc EXCEPT ![p] = "a_send"]
    /\ UNCHANGED <<req, mutex, anvil, chop, calls, target, metadata, unrestored>>

\* lines 67-84: the initial tracked set and the BEFORE capture.
A_Before(p) ==
    /\ pc[p] = "a_before"
    /\ \E tracked \in {InitialTracked(req[p])} :
       \E balancesBefore \in {captureBalances(anvil.chain, tracked, req[p].trackTokens)} :
          \/ /\ Set(p, [tracked |-> tracked,
                         extracted |-> extractTransferRecipient(req[p].data),
                         balancesBefore |-> balancesBefore,
                         ops |-> Op(p, "captureBefore")])
             /\ pc' = [pc EXCEPT ![p] = "a_gas"]
          \/ /\ \E a \in SeqToSet(tracked) :
                  Catch(p, RpcError("eth_getBalance failed"),
                        [tracked |-> tracked,
                         extracted |-> extractTransferRecipient(req[p].data),
                         failedCapture |-> <<[addresses |-> tracked, failing |-> {a},
                                              result |-> <<>>]>>,
                         ops |-> Op(p, "captureBefore")])
             /\ pc' = [pc EXCEPT ![p] = AfterBody(FALSE)]
    /\ UNCHANGED <<req, mutex, anvil, chop, calls, target, metadata, unrestored>>

\* line 86, getCurrentGasPrice: the live upstream quote, else the fork's, else raise.
A_GasPrice(p) ==
    /\ pc[p] = "a_gas"
    /\ \/ /\ \E g \in LiveGasPrices \cup ForkGasPrices :
               Set(p, [gasPrice |-> g, ops |-> Op(p, "feeData")])
          /\ pc' = [pc EXCEPT ![p] = "a_impersonate"]
       \/ /\ Catch(p, RpcError("getFeeData failed"), [ops |-> Op(p, "feeData")])
          /\ pc' = [pc EXCEPT ![p] = AfterBody(FALSE)]
    /\ UNCHANGED <<req, mutex, anvil, chop, calls, target, metadata, unrestored>>

\* lines 89-90: getImpersonatedSigner = impersonate RPC, then provider.getSigner.
A_Impersonate(p) ==
    /\ pc[p] = "a_impersonate"
    /\ \/ /\ Set(p, [impersonating |-> TRUE,
                     ops |-> loc[p].ops \o <<"impersonate", "getSigner">>])
          /\ pc' = [pc EXCEPT ![p] = "a_send"]
       \/ /\ Catch(p, RpcError("anvil_impersonateAccount failed"),
                   [ops |-> Op(p, "impersonate-failed")])
          /\ pc' = [pc EXCEPT ![p] = AfterBody(FALSE)]
       \/ /\ Catch(p, RpcError("getSigner failed"),
                   [ops |-> loc[p].ops \o <<"impersonate", "getSigner-failed">>])
          /\ pc' = [pc EXCEPT ![p] = AfterBody(FALSE)]
    /\ UNCHANGED <<req, mutex, anvil, chop, calls, target, metadata, unrestored>>

TxOf(r, gasPrice) ==
    [from |-> r.sender, to |-> r.to, value |-> r.value, gasPrice |-> gasPrice,
     behaviour |-> r.behaviour]

\* lines 92-126: first send, receipt wait, event decoding, address discovery.
A_Send(p) ==
    /\ pc[p] = "a_send"
    /\ \E tx \in {TxOf(req[p], loc[p].gasPrice)} :
       \E receipt \in {TxReceipt(tx)} :
       \E events \in {decodeLogs(receipt.logs)} :
       \E found \in {DiscoverAddresses(events, loc[p].tracked)} :
          \/ /\ anvil' = [anvil EXCEPT !.chain = ApplyTx(@, tx)]
             /\ Set(p, [receipt |-> <<receipt>>, finalReceipt |-> <<receipt>>,
                        events |-> events,
                        newAddresses |-> found, ops |-> Op(p, "send")])
             /\ pc' = [pc EXCEPT ![p] = IF Len(found) > 0 THEN "a_midrevert" ELSE "a_after"]
          \/ /\ anvil' = [anvil EXCEPT !.chain = ApplyTx(@, tx)]
             /\ Catch(p, RpcError("tx.wait failed"), [ops |-> Op(p, "send")])
             /\ pc' = [pc EXCEPT ![p] = AfterBody(TRUE)]
          \/ /\ UNCHANGED anvil
             /\ Catch(p, RpcError("sendTransaction failed"), [ops |-> Op(p, "send-failed")])
             /\ pc' = [pc EXCEPT ![p] = AfterBody(TRUE)]
    /\ UNCHANGED <<req, mutex, chop, calls, target, metadata, unrestored>>


MidRevertFatal == [message |-> "FATAL: Failed to revert to snapshot for historical balance lookup",
                   embeds |-> {}]

\* lines 130-137: the expansion pass reverts to the snapshot; evm_revert answers
\* true (state restored), false (state untouched) or raises.
A_MidRevert(p) ==
    /\ pc[p] = "a_midrevert"
    /\ \/ /\ anvil' = [anvil EXCEPT !.chain = evm_revert(@, loc[p].snapState[1])]
          /\ Set(p, [ops |-> Op(p, "revert")])
          /\ pc' = [pc EXCEPT ![p] = "a_historical"]
          /\ unrestored' = [unrestored EXCEPT !["anvil"] = FALSE]
       \/ /\ Catch(p, MidRevertFatal, [ops |-> Op(p, "revert-false")])
          /\ pc' = [pc EXCEPT ![p] = AfterBody(TRUE)]
          /\ UNCHANGED <<anvil, unrestored>>
       \/ /\ Catch(p, RpcError("evm_revert failed"), [ops |-> Op(p, "revert-failed")])
          /\ pc' = [pc EXCEPT ![p] = AfterBody(TRUE)]
          /\ UNCHANGED <<anvil, unrestored>>
    /\ UNCHANGED <<req, mutex, chop, calls, target, metadata>>

\* Merge of the historical balances into balancesBefore (lines 160-165).
RECURSIVE MergeHistorical(_, _, _)
MergeHistorical(balancesBefore, newAddresses, historical) ==
    IF newAddresses = <<>> THEN balancesBefore
    ELSE LET addr == Head(newAddresses)
             m == IF MapHas(historical, addr)
                  THEN MapSet(balancesBefore, addr, historical.val[addr])
                  ELSE balancesBefore
         IN MergeHistorical(m, Tail(newAddresses), historical)

\* lines 139-144: historical balances of the discovered addresses.  They are merged
\* into balancesBefore here; nothing reads balancesBefore before line 160.
A_Historical(p) ==
    /\ pc[p] = "a_historical"
    /\ \/ /\ \E historical \in {captureBalances(anvil.chain, loc[p].newAddresses,
                                                   req[p].trackTokens)} :
               Set(p, [balancesBefore |->
                          MergeHistorical(loc[p].balancesBefore, loc[p].newAddresses,
                                          historical),
                       ops |-> Op(p, "captureHistorical")])
          /\ pc' = [pc EXCEPT ![p] = "a_resend"]
       \/ /\ \E a \in SeqToSet(loc[p].newAddresses) :
               Catch(p, RpcError("eth_getBalance failed"),
                     [failedCapture |-> <<[addresses |-> loc[p].newAddresses,
                                           failing |-> {a}, result |-> <<>>]>>,
                      ops |-> Op(p, "captureHistorical")])
          /\ pc' = [pc EXCEPT ![p] = AfterBody(TRUE)]
    /\ UNCHANGED <<req, mutex, anvil, chop, calls, target, metadata, unrestored>>

\* lines 147-156: the re-execution; no gasPrice is given, the fork's own is used.
A_Resend(p) ==
    /\ pc[p] = "a_resend"
    /\ \E g \in ForkGasPrices :
        LET tx == TxOf(req[p], g)
        IN \/ /\ anvil' = [anvil EXCEPT !.chain = ApplyTx(@, tx)]
              /\ Set(p, [finalReceipt |-> <<TxReceipt(tx)>>, ops |-> Op(p, "send")])
              /\ pc' = [pc EXCEPT ![p] = "a_after"]
           \/ /\ anvil' = [anvil EXCEPT !.chain = ApplyTx(@, tx)]
              /\ Catch(p, RpcError("tx.wait failed"), [ops |-> Op(p, "send")])
              /\ pc' = [pc EXCEPT ![p] = AfterBody(TRUE)]
           \/ /\ UNCHANGED anvil
              /\ Catch(p, RpcError("sendTransaction failed"), [ops |-> Op(p, "send-failed")])
              /\ pc' = [pc EXCEPT ![p] = AfterBody(TRUE)]
    /\ UNCHANGED <<req, mutex, chop, calls, target, metadata, unrestored>>

\* lines 159-199: the AFTER capture over the expanded tracked set, the report,
\* the gas report and the response of the try block.
A_After(p) ==
    /\ pc[p] = "a_after"
    /\ \E tracked \in {AddAll(loc[p].tracked, loc[p].newAddresses)} :
       \E balancesAfter \in {captureBalances(anvil.chain, tracked, req[p].trackTokens)} :
       \E stateChanges \in {buildStateImpactReport(req[p].sender, req[p].to,
                                loc[p].balancesBefore, balancesAfter, loc[p].extracted)} :
          \/ /\ Set(p, [tracked |-> tracked, ops |-> Op(p, "captureAfter"),
                        balancesAfter |-> balancesAfter,
                        response |-> <<SuccessPathResponse(loc[p].receipt, stateChanges,
                                                           loc[p].events)>>])
             /\ \E answers \in [TokenKeys -> TokenAnswers] :
                  metadata' = TokenMetadataOf(metadata, req[p].trackTokens, answers)
          \/ /\ \E a \in SeqToSet(tracked) :
                  Catch(p, RpcError("eth_getBalance failed"),
                        [failedCapture |-> <<[addresses |-> tracked, failing |-> {a},
                                              result |-> <<>>]>>,
                         ops |-> Op(p, "captureAfter")])
             /\ UNCHANGED metadata
    /\ pc' = [pc EXCEPT ![p] = AfterBody(TRUE)]
    /\ UNCHANGED <<req, mutex, anvil, chop, calls, target, unrestored>>

\* lines 211-217: best-effort stopImpersonating; a failure is swallowed.
A_StopImpersonating(p) ==
    /\ pc[p] = "a_stop"
    /\ \/ Set(p, [ops |-> Op(p, "stopImpersonating")])
       \/ Set(p, [ops |-> Op(p, "stopImpersonating-failed")])
    /\ pc' = [pc EXCEPT ![p] = "a_revert"]
    /\ UNCHANGED <<req, mutex, anvil, chop, calls, target, metadata, unrestored>>

RevertFalseError == [message |-> "FATAL: Failed to revert snapshot - state may be corrupted",
                     embeds |-> {}]

\* lines 220-227: the final revert.
A_FinalRevert(p) ==
    /\ pc[p] = "a_revert"
    /\ \/ /\ anvil' = [anvil EXCEPT !.chain = evm_revert(@, loc[p].snapState[1])]
          /\ Set(p, [ops |-> Op(p, "revert")])
          /\ pc' = [pc EXCEPT ![p] = "a_return"]
          /\ unrestored' = [unrestored EXCEPT !["anvil"] = FALSE]
       \/ /\ Set(p, [ops |-> Op(p, "revert-false"), revertError |-> <<RevertFalseError>>])
          /\ pc' = [pc EXCEPT ![p] = "a_reset"]
          /\ UNCHANGED <<anvil, unrestored>>
       \/ /\ Set(p, [ops |-> Op(p, "revert-failed"),
                     revertError |-> <<RpcError("evm_revert failed")>>])
          /\ pc' = [pc EXCEPT ![p] = "a_reset"]
          /\ UNCHANGED <<anvil, unrestored>>
    /\ UNCHANGED <<req, mutex, chop, calls, target, metadata>>

CleanupFatal(revertError, resetError) ==
    [message |-> "FATAL: State cleanup failed - both revert and reset failed",
     embeds |-> Naming(revertError) \cup Naming(resetError)]

\* lines 228-236: anvil_reset to the fork block as the last resort; if it raises
\* too, the finally block throws and the response is lost.
A_Reset(p) ==
    /\ pc[p] = "a_reset"
    /\ \/ /\ anvil' = [anvil EXCEPT !.chain = AnvilOrigin]
          /\ Set(p, [ops |-> Op(p, "reset")])
          /\ unrestored' = [unrestored EXCEPT !["anvil"] = FALSE]
       \/ /\ Set(p, [ops |-> Op(p, "reset-failed"), response |-> <<>>,
                     thrown |-> <<CleanupFatal(loc[p].revertError[1],
                                               RpcError("anvil_reset failed"))>>])
          /\ unrestored' = [unrestored EXCEPT !["anvil"] = TRUE]
          /\ UNCHANGED anvil
    /\ pc' = [pc EXCEPT ![p] = "a_return"]
    /\ UNCHANGED <<req, mutex, chop, calls, target, metadata>>

\* lines 26-28: release() in the finally of simulateTransaction; the call settles.
A_Return(p) ==
    /\ pc[p] = "a_return"
    /\ Release("anvil", p)
    /\ req' = [req EXCEPT ![p] = NoReq]
    /\ loc' = [loc EXCEPT ![p] = NoLoc]
    /\ UNCHANGED <<anvil, chop, calls, target, metadata, unrestored>>

---------------------------------------------------------------------------
\* Kind B: simulateWasmTransaction / executeWasmSimulation

\* simulateWasmTransaction up to `await mutex.acquire()`.
CallB(p) ==
    /\ pc[p] = "idle"
    /\ calls < MaxCalls
    /\ target = "chopsticks"
    /\ \E r \in RequestsB :
         /\ req' = [req EXCEPT ![p] = r]
         /\ Acquire("chopsticks", p, r)
    /\ calls' = calls + 1
    /\ UNCHANGED <<target, metadata>>
    /\ UNCHANGED <<loc, anvil, chop, unrestored>>

\* unrestored after a reset() call with result r: a reset() that resolves counts
\* as a restore that succeeded.
AfterReset(r) ==
    IF r.error = <<>> THEN [unrestored EXCEPT !["chopsticks"] = FALSE] ELSE unrestored

\* line 74: the initial reset(), outside the try.
B_Reset(p) ==
    /\ pc[p] = "b_reset"
    /\ \E r \in ResetResults(chop) :
         /\ chop' = r.chop
         /\ unrestored' = AfterReset(r)
         /\ IF r.error = <<>>
            THEN /\ Set(p, [pre |-> <<chop>>, ops |-> loc[p].ops \o r.ops])
                 /\ pc' = [pc EXCEPT ![p] = "b_build"]
            ELSE /\ Set(p, [pre |-> <<chop>>, ops |-> loc[p].ops \o r.ops,
                            thrown |-> r.error])
                 /\ pc' = [pc EXCEPT ![p] = "b_return"]
    /\ UNCHANGED <<req, mutex, anvil, calls, target, metadata>>

emptyGasReportB == [weight |-> [refTime |-> 0, proofSize |-> 0], partialFee |-> 0]

\* The unknown-extrinsic response without the pallet and method in its message.
UnknownExtrinsicResponseUnnamed(sender, x) ==
    [success |-> FALSE, stateChanges |-> emptyStateReportB(sender), events |-> <<>>,
     gas |-> emptyGasReportB,
     error |-> <<[type |-> "unknown", message |-> <<"Unknown extrinsic">>]>>]

\* lines 119-129
UnknownExtrinsicResponse(sender, x) ==
    [success |-> FALSE, stateChanges |-> emptyStateReportB(sender), events |-> <<>>,
     gas |-> emptyGasReportB,
     error |-> <<[type |-> "unknown", message |-> <<"Unknown extrinsic: ", x.pallet, x.method>>]>>]

\* The error caught by the catch block at line 315; the catch resets next.
CatchB(p, error, upd) == Set(p, upd @@ [bodyError |-> <<error>>])

\* lines 76-157: chain properties (outside the try), then building the extrinsic.
B_Build(p) ==
    /\ pc[p] = "b_build"
    /\ LET x == req[p].extrinsic
       IN \/ /\ ~chop.propsCached
             /\ Set(p, [thrown |-> <<RpcError("system.properties failed")>>,
                        ops |-> Op(p, "properties-failed")])
             /\ pc' = [pc EXCEPT ![p] = "b_return"]
             /\ UNCHANGED chop
          \/ /\ chop' = [chop EXCEPT !.propsCached = TRUE]
             /\ IF x.form = "rawHex"
                THEN \/ /\ Set(p, [recipient |-> <<>>])
                        /\ pc' = [pc EXCEPT ![p] = "b_prepare"]
                     \/ /\ CatchB(p, RpcError("api.tx(rawHex) failed"), [recipient |-> <<>>])
                        /\ pc' = [pc EXCEPT ![p] = "b_catch"]
                ELSE IF <<x.pallet, x.method>> \notin RuntimeCalls
                THEN /\ Set(p, [response |-> <<UnknownExtrinsicResponse(req[p].sender, x)>>])
                     /\ pc' = [pc EXCEPT ![p] = "b_return"]
                ELSE /\ Set(p, [recipient |-> IF x.method \in TransferMethods
                                                 /\ Len(x.args) > 0
                                              THEN <<x.args[1]>>
                                              ELSE <<>>])
                     /\ pc' = [pc EXCEPT ![p] = "b_prepare"]
    /\ UNCHANGED <<req, mutex, anvil, calls, target, metadata, unrestored>>

\* The extrinsic a call signs: the request's call, as sender, with the nonce read.
SignedExtrinsic(request, nonce) ==
    [sender |-> request.sender, call |-> request.extrinsic, nonce |-> nonce,
     dispatch |-> request.dispatch]

\* lines 159-180: asset metadata (line 160), BEFORE capture (a failed read yields the zero
\* snapshot), payment info, sender nonce.
B_Prepare(p) ==
    /\ pc[p] = "b_prepare"
    /\ metadata' = getAssetMetadata(metadata, TrackAssetsOf(req[p]))
    /\ LET tracked == <<req[p].sender>> \o loc[p].recipient
       IN \E failing \in SUBSET SeqToSet(tracked) :
          \E before \in {captureBalancesWasm(HeadState(chop).accounts, tracked, failing)} :
          \E failed \in {IF failing = {} THEN <<>>
                          ELSE <<[addresses |-> tracked, failing |-> failing,
                                  result |-> <<before>>]>>} :
            \/ /\ Set(p, [balancesBefore |-> before, failedCapture |-> failed,
                          paymentInfo |-> <<[partialFee |-> WasmFee,
                                             weight |-> [refTime |-> 1, proofSize |-> 1]]>>,
                          nonce |-> HeadState(chop).accounts[req[p].sender].nonce,
                          ops |-> loc[p].ops \o <<"captureBefore", "paymentInfo", "nonce">>])
               /\ pc' = [pc EXCEPT ![p] = "b_submit"]
            \/ /\ CatchB(p, RpcError("paymentInfo failed"),
                         [balancesBefore |-> before, failedCapture |-> failed,
                          ops |-> loc[p].ops \o <<"captureBefore", "paymentInfo-failed">>])
               /\ pc' = [pc EXCEPT ![p] = "b_catch"]
            \/ /\ CatchB(p, RpcError("system.account failed"),
                         [balancesBefore |-> before, failedCapture |-> failed,
                          ops |-> loc[p].ops
                                  \o <<"captureBefore", "paymentInfo", "nonce-failed">>])
               /\ pc' = [pc EXCEPT ![p] = "b_catch"]
    /\ UNCHANGED <<req, mutex, anvil, chop, calls, target, unrestored>>

\* Variant of B_Submit: the block is produced first and the extrinsic submitted
\* after it.
B_SubmitAfterNewBlock(p) ==
    /\ pc[p] = "b_submit"
    /\ \/ /\ chop' = author_submitExtrinsic(dev_newBlock(chop),
                                            SignedExtrinsic(req[p], loc[p].nonce))
          /\ Set(p, [ops |-> loc[p].ops \o <<"newBlock", "submit">>])
          /\ pc' = [pc EXCEPT ![p] = "b_events"]
       \/ /\ CatchB(p, RpcError("author_submitExtrinsic failed"),
                    [ops |-> Op(p, "submit-failed")])
          /\ pc' = [pc EXCEPT ![p] = "b_catch"]
          /\ UNCHANGED chop
    /\ UNCHANGED <<req, mutex, anvil, calls, target, metadata, unrestored>>

\* line 223: author_submitExtrinsic.
B_Submit(p) ==
    /\ pc[p] = "b_submit"
    /\ \/ /\ chop' = author_submitExtrinsic(chop, SignedExtrinsic(req[p], loc[p].nonce))
          /\ Set(p, [ops |-> Op(p, "submit")])
          /\ pc' = [pc EXCEPT ![p] = "b_newblock"]
       \/ /\ CatchB(p, RpcError("author_submitExtrinsic failed"),
                    [ops |-> Op(p, "submit-failed")])
          /\ pc' = [pc EXCEPT ![p] = "b_catch"]
          /\ UNCHANGED chop
    /\ UNCHANGED <<req, mutex, anvil, calls, target, metadata, unrestored>>

\* line 224: dev_newBlock.
B_NewBlock(p) ==
    /\ pc[p] = "b_newblock"
    /\ \/ /\ \E c \in {dev_newBlock(chop)} : chop' = c
          /\ Set(p, [ops |-> Op(p, "newBlock")])
          /\ pc' = [pc EXCEPT ![p] = "b_events"]
       \/ /\ CatchB(p, RpcError("dev_newBlock failed"), [ops |-> Op(p, "newBlock-failed")])
          /\ pc' = [pc EXCEPT ![p] = "b_catch"]
          /\ UNCHANGED chop
    /\ UNCHANGED <<req, mutex, anvil, calls, target, metadata, unrestored>>

\* The extrinsic caller p signed and submitted, as event records name it.
InjectedExtrinsic(p) ==
    [sender |-> req[p].sender, call |-> req[p].extrinsic, nonce |-> loc[p].nonce]

\* The events the head block records for the extrinsic caller p injected.
InjectedEvents(p) ==
    SelectSeq(MapSeq(decodeWasmEvents(HeadState(chop).events), 1),
              LAMBDA e : e.of = InjectedExtrinsic(p))

\* lines 234-241: the events of the extrinsic with the highest index.
OurEventsOf(allEventRecords) ==
    CHOOSE ours \in
      { filterEventsByExtrinsicIndex(allEventRecords, ourExtrinsicIndex)
          : ourExtrinsicIndex \in {getLastExtrinsicIndex(allEventRecords)} } : TRUE

\* lines 227-246: system.events of the head block, and those of our extrinsic.
B_Events(p) ==
    /\ pc[p] = "b_events"
    /\ \/ \E allEventRecords \in {decodeWasmEvents(HeadState(chop).events)} :
          \E ours \in {OurEventsOf(allEventRecords)} :
            /\ Set(p, [ourEvents |-> ours, injectedEvents |-> InjectedEvents(p),
                       ops |-> Op(p, "events")])
            /\ pc' = [pc EXCEPT ![p] = "b_restore"]
       \/ /\ CatchB(p, RpcError("system.events failed"), [ops |-> Op(p, "events-failed")])
          /\ pc' = [pc EXCEPT ![p] = "b_catch"]
    /\ UNCHANGED <<req, mutex, anvil, chop, calls, target, metadata, unrestored>>

HasFailedEvent(events) ==
    \E i \in DOMAIN events : events[i].pallet = "system" /\ events[i].method = "ExtrinsicFailed"

GasReportB(paymentInfo) == [weight |-> paymentInfo.weight, partialFee |-> paymentInfo.partialFee]

\* ourEvents.find(system.ExtrinsicFailed): the first such event.
FailedEvent(events) ==
    events[CHOOSE i \in DOMAIN events :
              /\ events[i].pallet = "system" /\ events[i].method = "ExtrinsicFailed"
              /\ \A j \in 1..(i - 1) :
                    ~(events[j].pallet = "system" /\ events[j].method = "ExtrinsicFailed")]

\* failedEvent.data?.dispatchError
DispatchErrorOf(event) ==
    IF "dispatchError" \in DOMAIN event.data THEN event.data.dispatchError ELSE JsUndefined

\* lines 257-276
FailedResponse(sender, l) ==
    [success |-> FALSE, stateChanges |-> emptyStateReportB(sender),
     events |-> filterRelevantEvents(l.ourEvents),
     gas |-> GasReportB(l.paymentInfo[1]),
     error |-> <<decodeWasmError(RuntimeApi, DispatchErrorOf(FailedEvent(l.ourEvents)))>>]

\* lines 281-313
SuccessResponseB(sender, l) ==
    [success |-> TRUE,
     stateChanges |-> buildStateFromEvents(sender, l.recipient, l.ourEvents, l.balancesBefore),
     events |-> filterRelevantEvents(l.ourEvents),
     gas |-> GasReportB(l.paymentInfo[1]),
     error |-> <<>>]

ResetFatal(failed, resetError) ==
    [message |-> IF failed THEN "FATAL: State cleanup failed after transaction failure"
                 ELSE "FATAL: State cleanup failed after successful transaction",
     embeds |-> Naming(resetError)]

\* lines 248-314: the reset inside the try, then the response; a reset that raises
\* becomes a FATAL error thrown inside the try, which the catch below receives.
B_Restore(p) ==
    /\ pc[p] = "b_restore"
    /\ LET failed == HasFailedEvent(loc[p].ourEvents)
       IN \E resp \in {IF failed THEN FailedResponse(req[p].sender, loc[p])
                        ELSE SuccessResponseB(req[p].sender, loc[p])} :
          \E r \in ResetResults(chop) :
            /\ chop' = r.chop
            /\ unrestored' = AfterReset(r)
            /\ IF r.error = <<>>
               THEN /\ Set(p, [ops |-> loc[p].ops \o r.ops, response |-> <<resp>>])
                    /\ pc' = [pc EXCEPT ![p] = "b_return"]
               ELSE /\ CatchB(p, ResetFatal(failed, r.error[1]),
                              [ops |-> loc[p].ops \o r.ops])
                    /\ pc' = [pc EXCEPT ![p] = "b_catch"]
    /\ UNCHANGED <<req, mutex, anvil, calls, target, metadata>>

CatchFatal(error, resetError) ==
    [message |-> "FATAL: State cleanup failed after simulation error",
     embeds |-> Naming(error) \cup Naming(resetError)]

\* lines 315-329: the catch block resets, then rethrows the caught error, or a
\* FATAL error when the reset raises.
B_Catch(p) ==
    /\ pc[p] = "b_catch"
    /\ \E r \in ResetResults(chop) :
         /\ chop' = r.chop
         /\ IF r.error = <<>>
            THEN /\ Set(p, [ops |-> loc[p].ops \o r.ops, thrown |-> loc[p].bodyError])
                 /\ unrestored' = AfterReset(r)
            ELSE /\ Set(p, [ops |-> loc[p].ops \o r.ops,
                            thrown |-> <<CatchFatal(loc[p].bodyError[1], r.error[1])>>])
                 /\ unrestored' = [unrestored EXCEPT !["chopsticks"] = TRUE]
    /\ pc' = [pc EXCEPT ![p] = "b_return"]
    /\ UNCHANGED <<req, mutex, anvil, calls, target, metadata>>

\* lines 66-68: release() in the finally of simulateWasmTransaction.
B_Return(p) ==
    /\ pc[p] = "b_return"
    /\ Release("chopsticks", p)
    /\ req' = [req EXCEPT ![p] = NoReq]
    /\ loc' = [loc EXCEPT ![p] = NoLoc]
    /\ UNCHANGED <<anvil, chop, calls, target, metadata, unrestored>>

\* The steps of a kind-B call after it was made.
RunB(p) ==
    \/ B_Reset(p)
    \/ B_Build(p)
    \/ B_Prepare(p)
    \/ B_Submit(p)
    \/ B_NewBlock(p)
    \/ B_Events(p)
    \/ B_Restore(p)
    \/ B_Catch(p)
    \/ B_Return(p)

StepB(p) == CallB(p) \/ RunB(p)

---------------------------------------------------------------------------

\* The steps of a kind-A call after it was made.
RunA(p) ==
    \/ A_Snapshot(p)
    \/ A_Before(p)
    \/ A_GasPrice(p)
    \/ A_Impersonate(p)
    \/ A_Send(p)
    \/ A_MidRevert(p)
    \/ A_Historical(p)
    \/ A_Resend(p)
    \/ A_After(p)
    \/ A_StopImpersonating(p)
    \/ A_FinalRevert(p)
    \/ A_Reset(p)
    \/ A_Return(p)

StepA(p) == CallA(p) \/ RunA(p)

Next == \E p \in Procs : StepA(p) \/ StepB(p)

Spec == Init /\ [][Next]_vars

\* Every backend RPC terminates and the event loop resumes every continuation:
\* a call that has been made keeps taking its steps.  Callers need not call.
FairSpec == Spec /\ WF_vars(\E p \in Procs : RunA(p) \/ RunB(p))

---------------------------------------------------------------------------
\* buildStateImpactReport on its own: caller p1 holds the arguments (sender and
\* transaction.to in req, tokenRecipient in extracted, the BEFORE and AFTER maps
\* in balancesBefore and balancesAfter) and receives the report in response.

\* Balance maps over the lower-cased addresses s, x and r; the sender s has a
\* snapshot in both maps (the function dereferences it without a check).
RECURSIVE NativeMap(_, _)
NativeMap(addresses, native) ==
    IF addresses = <<>> THEN EmptyMap
    ELSE MapSet(NativeMap(SubSeq(addresses, 1, Len(addresses) - 1), native),
                addresses[Len(addresses)],
                [native |-> native[addresses[Len(addresses)]], tokens |-> EmptyMap])

ImpactMaps ==
    { NativeMap(addresses, native) :
        addresses \in {<<"s">>, <<"s", "x">>, <<"s", "r">>, <<"s", "x", "r">>},
        native \in [{"s", "x", "r"} -> 0..1] }

ImpactInit ==
    /\ pc = [p \in Procs |-> IF p = "p1" THEN "impact" ELSE "idle"]
    /\ \E to \in {"S", "X"} :
         req = [p \in Procs |->
                   IF p = "p1"
                   THEN [kind |-> "A", sender |-> "S", to |-> to, value |-> 0,
                         data |-> NoData, trackTokens |-> <<>>, behaviour |-> "plain"]
                   ELSE NoReq]
    /\ \E before \in ImpactMaps, after \in ImpactMaps, tokenRecipient \in {<<>>, <<"X">>} :
         loc = [p \in Procs |->
                   IF p = "p1"
                   THEN Merge(NoLoc, [balancesBefore |-> before, balancesAfter |-> after,
                                      extracted |-> tokenRecipient])
                   ELSE NoLoc]
    /\ mutex = [b \in Backends |-> [locked |-> FALSE, queue |-> <<>>]]
    /\ anvil = [chain |-> AnvilOrigin, nextId |-> 1]
    /\ chop = ChopsticksConnected
    /\ calls = 0
    /\ target = "anvil"
    /\ unrestored = [b \in Backends |-> FALSE]
    /\ metadata = NoMetadata

\* The call of buildStateImpactReport.
ImpactBuild ==
    /\ pc["p1"] = "impact"
    /\ \E report \in {buildStateImpactReport(req["p1"].sender, req["p1"].to,
                                              loc["p1"].balancesBefore,
                                              loc["p1"].balancesAfter,
                                              loc["p1"].extracted)} :
         Set("p1", [response |-> <<report>>])
    /\ pc' = [pc EXCEPT !["p1"] = "impact_done"]
    /\ UNCHANGED <<req, mutex, anvil, chop, calls, target, metadata, unrestored>>

ImpactSpec == ImpactInit /\ [][ImpactBuild]_vars


---------------------------------------------------------------------------
\* Properties

---------------------------------------------------------------------------
\* The error decoders on their own: caller p1 holds the decoder's name, the
\* value to decode and (kind B) the api in req, and receives the result in
\* response.

\* A property that may be absent: the objects with no property or with f.
Optional(f, values) == {NoProps} \cup {f :> v : v \in values}

PayloadOf(selector, arg) == [selector |-> selector, length |-> 74, arg |-> arg]

Payloads ==
    { PayloadOf(PanicSelector, <<"0x11">>), PayloadOf(PanicSelector, <<"0x99">>),
      PayloadOf(PanicSelector, <<>>),
      PayloadOf(RevertSelector, <<"Nope">>), PayloadOf(RevertSelector, <<"">>),
      PayloadOf(RevertSelector, <<>>),
      PayloadOf("0xe450d38c", <<"S, 1, 2">>), PayloadOf("0xfb8f41b2", <<>>),
      PayloadOf("0xdeadbeef", <<>>),
      [selector |-> "0x", length |-> 2, arg |-> <<>>],
      [selector |-> "", length |-> 0, arg |-> <<>>] }

EvmErrorInputs ==
    {JsNull, JsUndefined, JsString("boom"), [js |-> "number", number |-> 5]}
    \cup { data @@ reason @@ message @@ info :
             data \in Optional("data", Payloads),
             reason \in Optional("reason", {"Nope"}),
             message \in Optional("message", {"boom", "execution reverted",
                                              "call exception data=\"0x08c379a0..\""}),
             info \in Optional("info", {[error |-> [message |-> "execution reverted: \"Nope\""]],
                                        [error |-> [data |-> PayloadOf("0xdeadbeef", <<>>)]]}) }

ModuleIndex == [index |-> 5, error |-> 2]

\* DispatchError codec objects (is* probes, asModule, toHuman) and plain objects
\* (the toHuman()/toJSON() forms and an Error instance).
WasmErrorInputs ==
    {JsNull, JsUndefined, JsString("boom")}
    \cup { [isModule |-> TRUE, asModule |-> ModuleIndex] @@ human @@ badOrigin :
             human \in Optional("toHuman", {JsNull, [Module |-> ModuleIndex]}),
             badOrigin \in Optional("isBadOrigin", {TRUE, FALSE}) }
    \cup { [isModule |-> FALSE, isBadOrigin |-> b, isCannotLookup |-> c, isOther |-> o]
           @@ asOther :
             b \in BOOLEAN, c \in BOOLEAN, o \in BOOLEAN,
             asOther \in Optional("asOther", {"boom"}) }
    \cup { module @@ token @@ arithmetic @@ badOrigin :
             module \in Optional("module", {ModuleIndex}),
             token \in Optional("token", {JsString("FundsUnavailable"),
                                          [FundsUnavailable |-> JsNull]}),
             arithmetic \in Optional("arithmetic", {JsString("Overflow")}),
             badOrigin \in Optional("isBadOrigin", {TRUE}) }
    \cup { [Module |-> ModuleIndex], [other |-> JsString("boom")],
           [badOrigin |-> JsNull], [message |-> "boom", stack |-> "Error: boom"] }

DecodeRequests ==
    { [kind |-> "decodeEVMError", error |-> e, api |-> RuntimeApi] : e \in EvmErrorInputs }
    \cup { [kind |-> "decodeWasmError", error |-> e, api |-> [findMetaError |-> m]] :
             e \in WasmErrorInputs, m \in {"ok", "raises"} }

DecodeInit ==
    /\ pc = [p \in Procs |-> IF p = "p1" THEN "decode" ELSE "idle"]
    /\ \E r \in DecodeRequests : req = [p \in Procs |-> IF p = "p1" THEN r ELSE NoReq]
    /\ loc = [p \in Procs |-> NoLoc]
    /\ mutex = [b \in Backends |-> [locked |-> FALSE, queue |-> <<>>]]
    /\ anvil = [chain |-> AnvilOrigin, nextId |-> 1]
    /\ chop = ChopsticksConnected
    /\ calls = 0
    /\ target = "anvil"
    /\ unrestored = [b \in Backends |-> FALSE]
    /\ metadata = NoMetadata

\* The call of the decoder.
Decode ==
    /\ pc["p1"] = "decode"
    /\ \E result \in {IF req["p1"].kind = "decodeEVMError"
                      THEN decodeEVMError(req["p1"].error)
                      ELSE decodeWasmError(req["p1"].api, req["p1"].error)} :
         Set("p1", [response |-> <<result>>])
    /\ pc' = [pc EXCEPT !["p1"] = "decode_done"]
    /\ UNCHANGED <<req, mutex, anvil, chop, calls, target, metadata, unrestored>>

DecodeSpec == DecodeInit /\ [][Decode]_vars

---------------------------------------------------------------------------
\* buildAddressState on its own: one call on a BEFORE and an AFTER snapshot
\* whose token maps need not have the same keys.

MaxBalance == 1

TokenMaps ==
    {EmptyMap}
    \cup { MapSet(EmptyMap, k, v) : k \in {"t", "u"}, v \in 0..MaxBalance }
    \cup { MapSet(MapSet(EmptyMap, k[1], v1), k[2], v2) :
             k \in {<<"t", "u">>, <<"u", "t">>}, v1 \in 0..MaxBalance, v2 \in 0..MaxBalance }

BalanceSnapshots == { [native |-> n, tokens |-> m] : n \in 0..MaxBalance, m \in TokenMaps }

AddressStateInit ==
    /\ pc = [p \in Procs |-> IF p = "p1" THEN "build" ELSE "idle"]
    /\ \E before \in BalanceSnapshots, after \in BalanceSnapshots :
         req = [p \in Procs |->
                   IF p = "p1"
                   THEN [kind |-> "buildAddressState", address |-> "S",
                         before |-> before, after |-> after]
                   ELSE NoReq]
    /\ loc = [p \in Procs |-> NoLoc]
    /\ mutex = [b \in Backends |-> [locked |-> FALSE, queue |-> <<>>]]
    /\ anvil = [chain |-> AnvilOrigin, nextId |-> 1]
    /\ chop = ChopsticksConnected
    /\ calls = 0
    /\ target = "anvil"
    /\ unrestored = [b \in Backends |-> FALSE]
    /\ metadata = NoMetadata

AddressStateBuild ==
    /\ pc["p1"] = "build"
    /\ \E state \in {buildAddressState(req["p1"].address, req["p1"].before,
                                        req["p1"].after)} :
         Set("p1", [response |-> <<state>>])
    /\ pc' = [pc EXCEPT !["p1"] = "build_done"]
    /\ UNCHANGED <<req, mutex, anvil, chop, calls, target, metadata, unrestored>>

AddressStateSpec == AddressStateInit /\ [][AddressStateBuild]_vars

---------------------------------------------------------------------------
\* Building a structured extrinsic (executeWasmSimulation, processedArgs).
\* An argument is a tagged value: a string, a number, null, an array of values,
\* a call definition {pallet, method, args} as the request gives it, or a runtime
\* call as api.tx[pallet][method](...args) returns it.

ArgString(s) == [t |-> "string", s |-> s]

ArgNumber(n) == [t |-> "number", n |-> n]

ArgNull == [t |-> "null"]

ArgArray(items) == [t |-> "array", items |-> items]

CallDef(pallet, method, args) ==
    [t |-> "callDef", pallet |-> pallet, method |-> method, args |-> args]

\* api.tx[pallet][method](...args): the call holds the arguments it was given.
RuntimeCall(pallet, method, args) ==
    [t |-> "call", pallet |-> pallet, method |-> method, args |-> args]

\* The inner map of processedArgs: an item with pallet and method becomes a call
\* over its own args as they are.
ProcessItem(item) ==
    IF item.t = "callDef" THEN RuntimeCall(item.pallet, item.method, item.args) ELSE item

\* The outer map of processedArgs: only an argument that is an array is looked into.
ProcessArg(arg) ==
    IF arg.t = "array"
    THEN ArgArray([i \in DOMAIN arg.items |-> ProcessItem(arg.items[i])])
    ELSE arg

\* lines 132-150
BuildExtrinsic(x) ==
    RuntimeCall(x.pallet, x.method, [i \in DOMAIN x.args |-> ProcessArg(x.args[i])])

TransferDefs ==
    { CallDef("balances", "transfer", <<ArgString(dest), ArgNumber(value)>>) :
        dest \in {"Bob", "Charlie"}, value \in 1..2 }

BatchDefs ==
    { CallDef("utility", "batch", <<ArgArray(<<c>>)>>) : c \in TransferDefs }
    \cup { CallDef("utility", "batch", <<ArgArray(<<c, d>>)>>) :
             c \in TransferDefs, d \in TransferDefs }

\* A batch of batches, and a proxied call.
NestedDefs ==
    { CallDef("utility", "batch", <<ArgArray(<<b>>)>>) : b \in BatchDefs }
    \cup { CallDef("proxy", "proxy", <<ArgString("Bob"), ArgNull, c>>) :
             c \in TransferDefs \cup BatchDefs }

StructuredExtrinsics == TransferDefs \cup BatchDefs \cup NestedDefs

BuildInit ==
    /\ pc = [p \in Procs |-> IF p = "p1" THEN "buildExtrinsic" ELSE "idle"]
    /\ \E x \in StructuredExtrinsics :
         req = [p \in Procs |->
                   IF p = "p1" THEN [kind |-> "buildExtrinsic", extrinsic |-> x] ELSE NoReq]
    /\ loc = [p \in Procs |-> NoLoc]
    /\ mutex = [b \in Backends |-> [locked |-> FALSE, queue |-> <<>>]]
    /\ anvil = [chain |-> AnvilOrigin, nextId |-> 1]
    /\ chop = ChopsticksConnected
    /\ calls = 0
    /\ target = "chopsticks"
    /\ unrestored = [b \in Backends |-> FALSE]
    /\ metadata = NoMetadata

Build ==
    /\ pc["p1"] = "buildExtrinsic"
    /\ \E extrinsic \in {BuildExtrinsic(req["p1"].extrinsic)} :
         Set("p1", [response |-> <<extrinsic>>])
    /\ pc' = [pc EXCEPT !["p1"] = "buildExtrinsic_done"]
    /\ UNCHANGED <<req, mutex, anvil, chop, calls, target, metadata, unrestored>>

BuildSpec == BuildInit /\ [][Build]_vars

---------------------------------------------------------------------------
\* The metadata lookups of successive simulations in one process, each
\* simulation reduced to its lookups: a kind-A simulation resolves the metadata
\* of its trackTokens when it builds the report, a kind-B simulation calls
\* getAssetMetadata on its trackAssets.

TrackTokenLists == {<<"T">>, <<"U">>, <<"T", "U">>, <<"U", "t">>}

TrackAssetLists == {<<1>>, <<2>>, <<1, 2>>}

MetadataInit ==
    /\ pc = [p \in Procs |-> "idle"]
    /\ req = [p \in Procs |-> NoReq]
    /\ loc = [p \in Procs |-> NoLoc]
    /\ mutex = [b \in Backends |-> [locked |-> FALSE, queue |-> <<>>]]
    /\ anvil = [chain |-> AnvilOrigin, nextId |-> 1]
    /\ chop = ChopsticksConnected
    /\ calls = 0
    /\ target \in Backends
    /\ unrestored = [b \in Backends |-> FALSE]
    /\ metadata = NoMetadata

\* buildStateImpactReport lines 31-37 of one kind-A simulation.
TokenLookups ==
    /\ calls < MaxCalls
    /\ \E trackTokens \in TrackTokenLists, answers \in [TokenKeys -> TokenAnswers] :
         metadata' = TokenMetadataOf(metadata, trackTokens, answers)
    /\ calls' = calls + 1
    /\ UNCHANGED <<pc, req, loc, mutex, anvil, chop, target, unrestored>>

\* executeWasmSimulation line 160 of one kind-B simulation.
AssetLookups ==
    /\ calls < MaxCalls
    /\ \E trackAssets \in TrackAssetLists :
         metadata' = getAssetMetadata(metadata, trackAssets)
    /\ calls' = calls + 1
    /\ UNCHANGED <<pc, req, loc, mutex, anvil, chop, target, unrestored>>

MetadataSpec == MetadataInit /\ [][TokenLookups \/ AssetLookups]_vars

---------------------------------------------------------------------------
\* formatBalance on its own.  A decimal string is the sequence of its digits.

RECURSIVE Pow10(_)
Pow10(n) == IF n = 0 THEN 1 ELSE 10 * Pow10(n - 1)

\* BigInt.prototype.toString
RECURSIVE DigitsOf(_)
DigitsOf(n) == IF n < 10 THEN <<n>> ELSE Append(DigitsOf(n \div 10), n % 10)

\* String.prototype.padStart(length, "0")
RECURSIVE padStart(_, _)
padStart(digits, length) ==
    IF Len(digits) >= length THEN digits ELSE padStart(<<0>> \o digits, length)

\* String.prototype.slice(0, end)
slice(digits, end) == SubSeq(digits, 1, IF Len(digits) < end THEN Len(digits) ELSE end)

\* The template string `${whole}.${fractionStr}` as its two digit strings.
formatBalance(balance, decimals) ==
    LET value == balance
        divisor == Pow10(decimals)
        whole == value \div divisor
        fraction == value % divisor
        fractionStr == slice(padStart(DigitsOf(fraction), decimals), 6)
    IN [whole |-> DigitsOf(whole), fraction |-> fractionStr]

MaxDecimals == 9

Fees == {0, 1, 21, 21000, 999999, 1000000, 1000001, 123456789, 1999999999, 2000000000}

FormatInit ==
    /\ pc = [p \in Procs |-> IF p = "p1" THEN "format" ELSE "idle"]
    /\ \E fee \in Fees, decimals \in 0..MaxDecimals :
         req = [p \in Procs |->
                   IF p = "p1" THEN [kind |-> "formatBalance", balance |-> fee,
                                     decimals |-> decimals]
                   ELSE NoReq]
    /\ loc = [p \in Procs |-> NoLoc]
    /\ mutex = [b \in Backends |-> [locked |-> FALSE, queue |-> <<>>]]
    /\ anvil = [chain |-> AnvilOrigin, nextId |-> 1]
    /\ chop = ChopsticksConnected
    /\ calls = 0
    /\ target = "chopsticks"
    /\ unrestored = [b \in Backends |-> FALSE]
    /\ metadata = NoMetadata

Format ==
    /\ pc["p1"] = "format"
    /\ \E formatted \in {formatBalance(req["p1"].balance, req["p1"].decimals)} :
         Set("p1", [response |-> <<formatted>>])
    /\ pc' = [pc EXCEPT !["p1"] = "format_done"]
    /\ UNCHANGED <<req, mutex, anvil, chop, calls, target, metadata, unrestored>>

FormatSpec == FormatInit /\ [][Format]_vars

---------------------------------------------------------------------------
\* extractTransferRecipient on its own: one call on one calldata string.

SelectorLength == 10

\* Lengths of calldata: absent or empty, shorter than a selector, a selector
\* alone, and a selector followed by 1, 2 and 3 words of 64 characters, each with
\* the string one character short of it.
CalldataLengths == {0, 8, 10, 73, 74, 137, 138, 201, 202}

Calldatas ==
    { [selector |-> IF length < SelectorLength THEN "" ELSE selector,
       length |-> length,
       slot1 |-> IF length >= 74 THEN slot1 ELSE "",
       slot2 |-> IF length >= 138 THEN slot2 ELSE ""] :
        selector \in {"0xa9059cbb", "0xA9059CBB", "0x23b872dd", "0x23B872DD", "0x12345678"},
        length \in CalldataLengths,
        slot1 \in {"R", "S", "bad"},
        slot2 \in {"X", "T", "bad"} }

ExtractInit ==
    /\ pc = [p \in Procs |-> IF p = "p1" THEN "extract" ELSE "idle"]
    /\ \E data \in Calldatas :
         req = [p \in Procs |->
                   IF p = "p1" THEN [kind |-> "extractTransferRecipient", data |-> data]
                   ELSE NoReq]
    /\ loc = [p \in Procs |-> NoLoc]
    /\ mutex = [b \in Backends |-> [locked |-> FALSE, queue |-> <<>>]]
    /\ anvil = [chain |-> AnvilOrigin, nextId |-> 1]
    /\ chop = ChopsticksConnected
    /\ calls = 0
    /\ target = "anvil"
    /\ unrestored = [b \in Backends |-> FALSE]
    /\ metadata = NoMetadata

Extract ==
    /\ pc["p1"] = "extract"
    /\ \E recipient \in {extractTransferRecipient(req["p1"].data)} :
         Set("p1", [extracted |-> recipient])
    /\ pc' = [pc EXCEPT !["p1"] = "extract_done"]
    /\ UNCHANGED <<req, mutex, anvil, chop, calls, target, metadata, unrestored>>

ExtractSpec == ExtractInit /\ [][Extract]_vars

---------------------------------------------------------------------------
\* POST /simulate (unified-simulate router).  A body is the object express.json
\* parsed; the simulator the handler awaits is given by its outcome: it resolves
\* with a response (success true or false) or rejects with an error.  A reply is
\* the status and JSON the handler sends, and the simulators it invoked.

\* util-crypto decodeAddress on the addresses of the model.
IsSs58Address(a) == a \in {"Alice", "Bob"}

isEvmRequest(body) == Has(body, "transaction")

isWasmRequest(body) == Has(body, "extrinsic")

Reply(status, json, invoked) == [status |-> status, json |-> json, invoked |-> invoked]

\* The 400 replies of handleEvmSimulation: <<>> when the body is valid.
InvalidEvm(body) ==
    IF ~Has(body, "sender") \/ IsNullish(body.transaction) \/ ~Has(body.transaction, "to")
    THEN <<"Missing required fields: sender, transaction.to">>
    ELSE IF ~isAddress(body.sender) THEN <<"Invalid sender address">>
    ELSE IF ~isAddress(body.transaction.to) THEN <<"Invalid transaction.to address">>
    ELSE IF Has(body, "trackTokens")
            /\ \E i \in DOMAIN body.trackTokens : ~isAddress(body.trackTokens[i])
    THEN <<"Invalid token address">>
    ELSE <<>>

\* The try/catch around the awaited simulator call, the same in both handlers.
ReplyOf(outcome, simulator) ==
    IF ~outcome.resolved
    THEN Reply(500, [success |-> FALSE,
                     error |-> [type |-> "fatal",
                                message |-> IF outcome.message # "" THEN outcome.message
                                            ELSE "Internal simulation error"]],
               <<simulator>>)
    ELSE IF ~outcome.success THEN Reply(422, outcome, <<simulator>>)
    ELSE Reply(200, outcome, <<simulator>>)

\* Variant of handleEvmSimulation: every resolved result is sent with res.json.
handleEvmSimulationAlways200(body, outcome) ==
    IF InvalidEvm(body) # <<>>
    THEN Reply(400, [success |-> FALSE, error |-> [message |-> InvalidEvm(body)[1]]], <<>>)
    ELSE IF ~outcome.resolved THEN ReplyOf(outcome, "simulateTransaction")
    ELSE Reply(200, outcome, <<"simulateTransaction">>)

handleEvmSimulation(body, outcome) ==
    IF InvalidEvm(body) # <<>>
    THEN Reply(400, [success |-> FALSE, error |-> [message |-> InvalidEvm(body)[1]]], <<>>)
    ELSE ReplyOf(outcome, "simulateTransaction")

\* The 400 replies of handleWasmSimulation: <<>> when the body is valid.
InvalidWasm(body) ==
    IF ~Has(body, "sender") THEN <<"Missing required field: sender">>
    ELSE IF ~IsSs58Address(body.sender) THEN <<"Invalid sender address">>
    ELSE IF IsNullish(body.extrinsic) THEN <<"Missing required field: extrinsic">>
    ELSE IF ~({"pallet", "method"} \subseteq DOMAIN body.extrinsic)
            /\ "rawHex" \notin DOMAIN body.extrinsic
    THEN <<"Extrinsic must have either (pallet, method, args) or rawHex">>
    ELSE <<>>

handleWasmSimulation(body, outcome) ==
    IF InvalidWasm(body) # <<>>
    THEN Reply(400, [success |-> FALSE,
                     error |-> [type |-> "unknown", message |-> InvalidWasm(body)[1]]], <<>>)
    ELSE ReplyOf(outcome, "simulateWasmTransaction")

\* Variant of routerPost: no check that only one of the two fields is present.
routerPostFirstMatch(body, outcome) ==
    IF isEvmRequest(body) THEN handleEvmSimulation(body, outcome)
    ELSE IF isWasmRequest(body) THEN handleWasmSimulation(body, outcome)
    ELSE Reply(400, [success |-> FALSE, error |-> [type |-> "unknown", message |-> "neither"]],
               <<>>)

\* router.post("/")
routerPost(body, outcome) ==
    LET isEvm == isEvmRequest(body)
        isWasm == isWasmRequest(body)
    IN IF ~isEvm /\ ~isWasm
       THEN Reply(400, [success |-> FALSE,
                        error |-> [type |-> "unknown", message |-> "neither"]], <<>>)
       ELSE IF isEvm /\ isWasm
       THEN Reply(400, [success |-> FALSE,
                        error |-> [type |-> "unknown", message |-> "both"]], <<>>)
       ELSE IF isEvm THEN handleEvmSimulation(body, outcome)
       ELSE handleWasmSimulation(body, outcome)

Bodies ==
    { sender @@ transaction @@ extrinsic @@ trackTokens :
        sender \in Optional("sender", {"S", "Alice", "bad"}),
        transaction \in Optional("transaction", {JsNull, NoProps, [to |-> "T"], [to |-> "bad"]}),
        extrinsic \in Optional("extrinsic",
                               {JsNull, NoProps, [rawHex |-> "0x01"],
                                [pallet |-> "balances", method |-> "transfer"]}),
        trackTokens \in Optional("trackTokens", {<<"T">>, <<"T", "bad">>}) }

\* What the awaited simulator call does.
SimulatorOutcomes ==
    { [resolved |-> TRUE, success |-> TRUE], [resolved |-> TRUE, success |-> FALSE],
      [resolved |-> FALSE,
       message |-> "FATAL: State cleanup failed - both revert and reset failed"],
      [resolved |-> FALSE, message |-> ""] }

RouteInit ==
    /\ pc = [p \in Procs |-> IF p = "p1" THEN "route" ELSE "idle"]
    /\ \E body \in Bodies, outcome \in SimulatorOutcomes :
         req = [p \in Procs |->
                   IF p = "p1" THEN [kind |-> "http", body |-> body, outcome |-> outcome]
                   ELSE NoReq]
    /\ loc = [p \in Procs |-> NoLoc]
    /\ mutex = [b \in Backends |-> [locked |-> FALSE, queue |-> <<>>]]
    /\ anvil = [chain |-> AnvilOrigin, nextId |-> 1]
    /\ chop = ChopsticksConnected
    /\ calls = 0
    /\ target = "anvil"
    /\ unrestored = [b \in Backends |-> FALSE]
    /\ metadata = NoMetadata

\* The request is handled and replied to.
Route ==
    /\ pc["p1"] = "route"
    /\ \E reply \in {routerPost(req["p1"].body, req["p1"].outcome)} :
         Set("p1", [response |-> <<reply>>])
    /\ pc' = [pc EXCEPT !["p1"] = "route_done"]
    /\ UNCHANGED <<req, mutex, anvil, chop, calls, target, metadata, unrestored>>

RouteSpec == RouteInit /\ [][Route]_vars

\* Between mutex acquisition and release: every backend operation of a run is
\* made at one of these positions.
CriticalA == {"a_snapshot", "a_before", "a_gas", "a_impersonate", "a_send",
              "a_midrevert", "a_historical", "a_resend", "a_after", "a_stop",
              "a_revert", "a_reset", "a_return"}

CriticalB == {"b_reset", "b_build", "b_prepare", "b_submit", "b_newblock",
              "b_events", "b_restore", "b_catch", "b_return"}

InCritical(b) ==
    {p \in Procs : pc[p] \in (IF b = "anvil" THEN CriticalA ELSE CriticalB)}

\* C1: on each backend at most one simulate call at a time is between acquiring
\* and releasing the backend's mutex, so the backend operations of two runs on
\* one backend never interleave.
C1_MutualExclusion == \A b \in Backends : Cardinality(InCritical(b)) <= 1

\* A run is in the middle of its backend operations while another call on the
\* same backend waits for the mutex.
C1_Witness ==
    \E p, q \in Procs :
        /\ p # q
        /\ pc[p] \in {"a_send", "b_newblock"}
        /\ pc[q] = "wait"

\* A kind-A call is about to return a response (nothing was thrown).
ReturnsResponseA(p) == pc[p] = "a_return" /\ loc[p].response # <<>>

\* C2: when a kind-A call returns a response, the fork state (block and all
\* balances) equals the state observed when the call entered the fork.
C2_ForkStateRestored ==
    \A p \in Procs : ReturnsResponseA(p) => anvil.chain = loc[p].pre[1]

\* A kind-B call is about to return a response.
ReturnsResponseB(p) == pc[p] = "b_return" /\ loc[p].response # <<>>

\* The last backend operation of caller p's run.
LastOp(p) == loc[p].ops[Len(loc[p].ops)]

\* Caller p's run has just had reset() resolve.
ResetResolved(p) ==
    /\ pc[p] \in {"b_build", "b_return"}
    /\ loc[p].ops # <<>>
    /\ LastOp(p) \in {"setHead", "connect"}

\* C3: when a kind-B call returns a response, and whenever reset() has resolved
\* (by dev_setHead or by the disconnect-and-reconnect fallback), the head of the
\* Chopsticks fork is the original fork block.
C3_HeadIsForkBlock ==
    \A p \in Procs :
        (ReturnsResponseB(p) \/ ResetResolved(p)) => chop.head = ForkBlock.head

---------------------------------------------------------------------------
\* The restore sequence of kind A, read off the run's operation log.

RevertOps == {"revert", "revert-false", "revert-failed"}

ResetOps == {"reset", "reset-failed"}

StopOps == {"stopImpersonating", "stopImpersonating-failed"}

BodyOps == {"captureBefore", "feeData", "impersonate", "impersonate-failed",
            "getSigner", "getSigner-failed", "send", "send-failed",
            "captureHistorical", "captureAfter"}

\* Index of the final revert in ops: the last revert operation (0 if none).
FinalRevertIdx(ops) ==
    LET is == {i \in DOMAIN ops : ops[i] \in RevertOps}
    IN IF is = {} THEN 0 ELSE CHOOSE i \in is : \A j \in is : j <= i

\* C4: a kind-A run that obtained a snapshot reverts to it after the body on
\* every exit path; reset is attempted exactly when that revert returned false
\* or raised; stopImpersonating comes right before the revert exactly when the
\* impersonated signer was obtained; a failing stopImpersonating leaves the
\* response in place and the restore sequence goes on.
C4_RestoreSequence ==
    \A p \in Procs :
        LET ops == loc[p].ops
            i   == FinalRevertIdx(ops)
        IN /\ (pc[p] = "a_return" /\ loc[p].snapshotId # 0) =>
                /\ i > 0
                /\ \A j \in DOMAIN ops : ops[j] \in BodyOps => j < i
                /\ (\E j \in DOMAIN ops : ops[j] \in ResetOps)
                       <=> ops[i] \in {"revert-false", "revert-failed"}
                /\ \A j \in DOMAIN ops : ops[j] \in ResetOps => j = i + 1
                /\ (i > 1 /\ ops[i - 1] \in StopOps) <=> Contains(ops, "getSigner")
                /\ \A j \in DOMAIN ops : ops[j] \in StopOps => j = i - 1
           /\ (pc[p] = "a_revert" /\ ops # <<>> /\ LastOp(p) = "stopImpersonating-failed") =>
                /\ loc[p].response # <<>>
                /\ loc[p].thrown = <<>>

\* A run whose signer was obtained, whose stopImpersonating failed, whose final
\* revert returned false and whose reset succeeded, about to return.
C4_Witness ==
    \E p \in Procs :
        /\ pc[p] = "a_return"
        /\ loc[p].response # <<>>
        /\ Contains(loc[p].ops, "stopImpersonating-failed")
        /\ Contains(loc[p].ops, "revert-false")
        /\ LastOp(p) = "reset"

---------------------------------------------------------------------------
\* Restore failures

\* The restore of caller p's run has failed: kind A, the final revert did not
\* succeed and reset() raised; kind B, the run's last reset() after the body
\* (the one in the catch block) raised.
RestoreFailed(p) ==
    /\ loc[p].ops # <<>>
    /\ \/ pc[p] = "a_return" /\ LastOp(p) = "reset-failed"
       \/ /\ pc[p] = "b_return"
          /\ loc[p].bodyError # <<>>
          /\ LastOp(p) \in {"connect-failed", "disconnect-failed"}

\* C5: when the restore fails the call rejects with a FATAL error, never with a
\* response, and the message names the restore error and, when an error had
\* interrupted the simulation body, that error too.
C5_FatalNamesBothErrors ==
    \A p \in Procs :
        RestoreFailed(p) =>
            /\ loc[p].response = <<>>
            /\ loc[p].thrown # <<>>
            /\ IsFatal(loc[p].thrown[1])
            /\ loc[p].thrown[1].embeds # {}
            /\ loc[p].bodyError # <<>> =>
                   loc[p].bodyError[1].message \in Naming(loc[p].thrown[1])

\* C6: once a call on a backend has rejected with a fatal restore failure, no
\* transaction or extrinsic is executed on that backend's fork (the fork gains
\* no block) until a restore on that backend has succeeded.
C6_NoExecutionWhileUnrestored ==
    [][ /\ anvil'.chain.block > anvil.chain.block => ~unrestored["anvil"]
        /\ chop'.head > chop.head => ~unrestored["chopsticks"] ]_vars

---------------------------------------------------------------------------
\* Release of the mutex

\* C7: the mutex is released on every exit path of a simulate call, so a caller
\* waiting on a backend's mutex eventually acquires it, given that every RPC
\* terminates.
C7_WaitersAcquire ==
    \A p \in Procs : (pc[p] = "wait") ~> (pc[p] \in CriticalA \cup CriticalB)

\* A caller waits while the run holding the mutex is about to leave with a thrown
\* error: a FATAL error from the restore step, or the error of a failed
\* snapshot or initial reset.
C7_Witness ==
    \E p, q \in Procs :
        /\ pc[q] = "wait"
        /\ pc[p] \in {"a_return", "b_return"}
        /\ loc[p].thrown # <<>>
        /\ IsFatal(loc[p].thrown[1]) \/ loc[p].ops \in {<<"snapshot">>, <<"setHead-failed", "disconnect-failed">>}

---------------------------------------------------------------------------
\* Responses

\* C8: every response of either engine has success=true with no error, or
\* success=false with an error.
C8_SuccessIffNoError ==
    \A p \in Procs :
        loc[p].response # <<>> =>
            LET r == loc[p].response[1]
            IN /\ r.success => r.error = <<>>
               /\ ~r.success => r.error # <<>>

\* A kind-A call returns the response of a mined transaction with status 0.
C8_Witness ==
    \E p \in Procs :
        /\ pc[p] = "a_return"
        /\ loc[p].response # <<>>
        /\ loc[p].receipt # <<>>
        /\ loc[p].receipt[1].status = 0
        /\ loc[p].bodyError = <<>>

---------------------------------------------------------------------------
\* The address-expansion pass of kind A

\* The expansion pass's revert of caller p's run did not succeed: a revert that
\* returned false or raised, before the final revert.
MidRevertFailed(p) ==
    \E i \in DOMAIN loc[p].ops :
        /\ loc[p].ops[i] \in {"revert-false", "revert-failed"}
        /\ i < FinalRevertIdx(loc[p].ops)

\* C9: when the expansion pass's revert does not succeed the run fails fatally:
\* no historical capture, no re-execution, and the call rejects with a FATAL
\* error instead of returning a response.
C9_MidRevertFailureIsFatal ==
    \A p \in Procs :
        (pc[p] = "a_return" /\ MidRevertFailed(p)) =>
            /\ ~Contains(loc[p].ops, "captureHistorical")
            /\ Cardinality({i \in DOMAIN loc[p].ops : loc[p].ops[i] = "send"}) = 1
            /\ loc[p].response = <<>>
            /\ loc[p].thrown # <<>>
            /\ IsFatal(loc[p].thrown[1])

\* The report entry of address a in a state-impact report, if a is reported.
ReportedAs(stateChanges, a) ==
    {stateChanges.contractsAffected[i] : i \in
        {j \in DOMAIN stateChanges.contractsAffected :
            stateChanges.contractsAffected[j].address = a}}
    \cup (IF stateChanges.recipient.address = a THEN {stateChanges.recipient} ELSE {})

\* Caller p's run took the expansion pass and its try block built a response.
ExpandedRun(p) ==
    /\ loc[p].response # <<>>
    /\ loc[p].bodyError = <<>>
    /\ loc[p].newAddresses # <<>>

---------------------------------------------------------------------------
\* Gas report of kind A

\* Caller p holds the response built by the try block of a kind-A run.
TryResponseA(p) ==
    /\ pc[p] \in CriticalA
    /\ loc[p].response # <<>>
    /\ loc[p].bodyError = <<>>

\* Native delta of an AddressState: the first before/after rows are the native ones.
NativeDelta(state) == state.after[1].balance - state.before[1].balance

\* C11: in a kind-A success response the gas report is that of the receipt of the
\* run's final execution, and for to # sender the sender's reported native delta
\* is -(value + gasUsed * gasPrice) with the reported gasUsed and gasPrice.
C11_GasReportOfFinalReceipt ==
    \A p \in Procs :
        (TryResponseA(p) /\ loc[p].response[1].success) =>
            LET r == loc[p].response[1]
            IN /\ r.gas = calculateGasReport(loc[p].finalReceipt)
               /\ toLowerCase(req[p].to) # toLowerCase(req[p].sender) =>
                     NativeDelta(r.stateChanges.sender)
                        = 0 - (req[p].value + r.gas.gasUsed * r.gas.gasPrice)

---------------------------------------------------------------------------
\* Failure responses of kind A

\* An AddressState with nothing in it.
EmptyAddressState(address) ==
    [address |-> address, before |-> <<>>, after |-> <<>>, changes |-> <<>>]

RevertedRun(p) ==
    /\ TryResponseA(p)
    /\ loc[p].receipt # <<>>
    /\ loc[p].receipt[1].status = 0

C14_OurEventsAreInjected ==
    \A p \in Procs :
        pc[p] = "b_restore" => loc[p].ourEvents = InjectedEvents(p)


\* A kind-B run about to return a success response.
SuccessRunB(p) ==
    pc[p] = "b_return" /\ loc[p].response # <<>> /\ loc[p].response[1].success

\* The entries of a kind-B state report: sender, recipient if any, otherAffected.
ReportedB(stateChanges) ==
    <<stateChanges.sender>> \o stateChanges.recipient \o stateChanges.otherAffected

\* The signed native amount event e moves for address.
SignedAmount(e, address) ==
    IF e.pallet # "balances" THEN 0
    ELSE CASE e.method = "Transfer" ->
                (IF e.data.to = address THEN ParseAmount(e.data.amount) ELSE 0)
                - (IF e.data.from = address THEN ParseAmount(e.data.amount) ELSE 0)
           [] e.method = "Withdraw" ->
                IF e.data.who = address THEN 0 - ParseAmount(e.data.amount) ELSE 0
           [] e.method = "Deposit" ->
                IF e.data.who = address THEN ParseAmount(e.data.amount) ELSE 0
           [] OTHER -> 0

RECURSIVE NetDelta(_, _)
NetDelta(events, address) ==
    IF events = <<>> THEN 0
    ELSE SignedAmount(Head(events), address) + NetDelta(Tail(events), address)

\* C15: in a kind-B success response every reported address has native `before`
\* equal to free + reserved of its BEFORE snapshot, and native `after` equal to
\* `before` plus the signed amounts of the balances Transfer, Withdraw and Deposit
\* events of ourEvents (Reserved, Unreserved and all other events add nothing).
C15_BeforeFromSnapshotAfterFromEvents ==
    \A p \in Procs :
        SuccessRunB(p) =>
            LET entries == ReportedB(loc[p].response[1].stateChanges)
                snapshots == loc[p].balancesBefore
            IN \A i \in DOMAIN entries :
                 LET a == entries[i].address
                 IN /\ MapHas(snapshots, a)
                    /\ entries[i].before[1].balance
                         = snapshots.val[a].native.free + snapshots.val[a].native.reserved
                    /\ entries[i].after[1].balance
                         = entries[i].before[1].balance + NetDelta(loc[p].ourEvents, a)


\* C16: in a kind-B success response the sender entry is present; the recipient
\* entry is present exactly when the run identified a presumptive recipient whose
\* net native delta over ourEvents is not zero; otherAffected lists, once each,
\* exactly the addresses other than sender and recipient whose net delta is not zero.
C16_SenderRecipientOthers ==
    \A p \in Procs :
        SuccessRunB(p) =>
            LET st == loc[p].response[1].stateChanges
                recipient == loc[p].recipient
                others == {st.otherAffected[i].address : i \in DOMAIN st.otherAffected}
            IN /\ st.sender.address = req[p].sender
               /\ st.recipient # <<>>
                    <=> (recipient # <<>> /\ NetDelta(loc[p].ourEvents, recipient[1]) # 0)
               /\ st.recipient # <<>> => st.recipient[1].address = recipient[1]
               /\ others = {a \in WasmAddresses :
                               /\ a # req[p].sender
                               /\ <<a>> # recipient
                               /\ NetDelta(loc[p].ourEvents, a) # 0}
               /\ Cardinality(others) = Len(st.otherAffected)

\* A success response to a zero-amount transfer: a recipient was identified, the
\* report has none, and a third address is in otherAffected.
C16_Witness ==
    \E p \in Procs :
        /\ SuccessRunB(p)
        /\ loc[p].recipient # <<>>
        /\ loc[p].response[1].stateChanges.recipient = <<>>
        /\ loc[p].response[1].stateChanges.otherAffected # <<>>


\* A kind-B run whose ourEvents hold system.ExtrinsicFailed, about to return.
FailedRunB(p) ==
    pc[p] = "b_return" /\ HasFailedEvent(loc[p].ourEvents)

\* The first system.ExtrinsicFailed event among events.
FirstFailed(events) ==
    events[CHOOSE i \in DOMAIN events :
              /\ events[i].pallet = "system" /\ events[i].method = "ExtrinsicFailed"
              /\ \A j \in DOMAIN events :
                    (events[j].pallet = "system" /\ events[j].method = "ExtrinsicFailed") => i <= j]

\* C17: a kind-B run whose ourEvents contain system.ExtrinsicFailed calls reset()
\* after reading the events and before it returns; unless that reset fails (the
\* call then rejects), it returns success=false, the error decoded from the
\* event's dispatchError, fee and weight of the payment info read before the
\* submission, the relevant events of the extrinsic the run injected, and the
\* empty state report.
C17_FailedExtrinsicResponse ==
    \A p \in Procs :
        FailedRunB(p) =>
            LET ops == loc[p].ops
                l == loc[p]
            IN /\ \E i, j, k \in DOMAIN ops :
                    /\ i < j /\ j < k
                    /\ ops[i] = "paymentInfo" /\ ops[j] = "submit"
                    /\ ops[k] = "events" /\ k < Len(ops)
               /\ l.response # <<>> \/ l.thrown # <<>>
               /\ l.response # <<>> =>
                    /\ LastOp(p) \in {"setHead", "connect"}
                    /\ l.response[1] =
                         [success |-> FALSE,
                          stateChanges |-> [sender |-> [address |-> req[p].sender,
                                                        before |-> <<>>, after |-> <<>>,
                                                        changes |-> <<>>],
                                            recipient |-> <<>>, otherAffected |-> <<>>],
                          events |-> filterRelevantEvents(l.injectedEvents),
                          gas |-> [weight |-> l.paymentInfo[1].weight,
                                   partialFee |-> l.paymentInfo[1].partialFee],
                          error |-> <<decodeWasmError(RuntimeApi,
                                        FirstFailed(l.ourEvents).data.dispatchError)>>]
               /\ l.thrown # <<>> => IsFatal(l.thrown[1])


\* A kind-B run on a structured request whose pallet.method the runtime lacks,
\* about to return.
UnknownRunB(p) ==
    /\ pc[p] = "b_return"
    /\ req[p].extrinsic.form = "structured"
    /\ <<req[p].extrinsic.pallet, req[p].extrinsic.method>> \notin RuntimeCalls

\* C18: a kind-B run on a structured request whose pallet.method is not in the
\* runtime captures no balance, submits no extrinsic and produces no block; once
\* past the initial reset and the chain properties it returns success=false, error
\* type unknown with message "Unknown extrinsic: <pallet>.<method>", the empty
\* state report, no events and the all-zero gas report.
C18_UnknownExtrinsic ==
    \A p \in Procs :
        UnknownRunB(p) =>
            /\ \A i \in DOMAIN loc[p].ops :
                   loc[p].ops[i] \notin {"captureBefore", "paymentInfo", "nonce", "submit",
                                         "submit-failed", "newBlock", "newBlock-failed",
                                         "events", "events-failed"}
            /\ loc[p].balancesBefore = EmptyMap
            /\ loc[p].response # <<>> \/ loc[p].thrown # <<>>
            /\ loc[p].thrown # <<>> =>
                   LastOp(p) \in {"connect-failed", "disconnect-failed", "properties-failed"}
            /\ loc[p].response # <<>> =>
                   loc[p].response[1] =
                     [success |-> FALSE,
                      stateChanges |-> [sender |-> [address |-> req[p].sender, before |-> <<>>,
                                                    after |-> <<>>, changes |-> <<>>],
                                        recipient |-> <<>>, otherAffected |-> <<>>],
                      events |-> <<>>,
                      gas |-> [weight |-> [refTime |-> 0, proofSize |-> 0], partialFee |-> 0],
                      error |-> <<[type |-> "unknown",
                                   message |-> <<"Unknown extrinsic: ", req[p].extrinsic.pallet,
                                                 req[p].extrinsic.method>>]>>]

\* The unknown-extrinsic response is about to be returned.
C18_Witness ==
    \E p \in Procs : UnknownRunB(p) /\ loc[p].response # <<>>


\* C19: the fork origin the kind-B service cached at its first successful connect
\* (originalBlockHash, originalBlockNumber: the fork block) has that value in
\* every later state.
C19_ForkOriginFixed ==
    chop.originalBlockHash = <<ForkBlock.head>>


\* The snapshot of address a in map m, the zero snapshot when m has none.
SnapshotOr0(m, a) == IF MapHas(m, a) THEN m.val[a] ELSE [native |-> 0, tokens |-> EmptyMap]

\* C20: in a report of buildStateImpactReport every address of the BEFORE or the
\* AFTER map whose balances differ between the two (an absent snapshot counting as
\* zero balances) is the address of exactly one entry among sender, recipient and
\* contractsAffected.
C20_ReportedExactlyOnce ==
    pc["p1"] = "impact_done" =>
        LET before == loc["p1"].balancesBefore
            after == loc["p1"].balancesAfter
            report == loc["p1"].response[1]
            entries == <<report.sender, report.recipient>> \o report.contractsAffected
        IN \A a \in SeqToSet(before.keys) \cup SeqToSet(after.keys) :
             SnapshotOr0(before, a) # SnapshotOr0(after, a) =>
                 Cardinality({i \in DOMAIN entries : entries[i].address = a}) = 1

---------------------------------------------------------------------------
\* The recipient entry of kind A

\* C21: in every report built on the kind-A success path the recipient entry is
\* an address state with its native before and after rows, whether or not it has
\* changes, and its address is the lower-cased recipient extracted from the
\* calldata when one was extracted, else the lower-cased `to`.
C21_RecipientEntry ==
    \A p \in Procs :
        TryResponseA(p) =>
            LET recipient == loc[p].response[1].stateChanges.recipient
                extracted == extractTransferRecipient(req[p].data)
            IN /\ Len(recipient.before) >= 1
               /\ Len(recipient.after) >= 1
               /\ recipient.address =
                     IF extracted # <<>> THEN toLowerCase(extracted[1])
                     ELSE toLowerCase(req[p].to)

\* A token call whose calldata names no recipient: the report's recipient entry is
\* the token contract t, with its balance rows and without changes, next to a
\* discovered address reported in contractsAffected.
C21_Witness ==
    \E p \in Procs :
        /\ TryResponseA(p)
        /\ extractTransferRecipient(req[p].data) = <<>>
        /\ loc[p].response[1].stateChanges.recipient.address = "t"
        /\ loc[p].response[1].stateChanges.recipient.changes = <<>>
        /\ Len(loc[p].response[1].stateChanges.recipient.before) = 2
        /\ loc[p].response[1].stateChanges.contractsAffected # <<>>

---------------------------------------------------------------------------
\* Order of the events of a response

\* The ordinals of a response's events: logIndex for kind A, the position in the
\* block's event list for kind B.
Ordinals(p) ==
    LET events == loc[p].response[1].events
    IN [i \in DOMAIN events |->
           IF req[p].kind = "A" THEN events[i].logIndex ELSE events[i].index]

\* C22: the events of every response are in strictly ascending order of their
\* ordinal; no two events of one response have the same ordinal.
C22_EventsStrictlyAscending ==
    \A p \in Procs :
        (pc[p] \in CriticalA \cup CriticalB /\ loc[p].response # <<>>) =>
            \A i \in DOMAIN Ordinals(p), j \in DOMAIN Ordinals(p) :
                i < j => Ordinals(p)[i] < Ordinals(p)[j]

\* A kind-B response with more than two events of the block's second extrinsic.
C22_Witness ==
    \E p \in Procs :
        /\ pc[p] = "b_return"
        /\ loc[p].response # <<>>
        /\ Len(loc[p].response[1].events) > 2
        /\ Ordinals(p)[1] > 1

---------------------------------------------------------------------------
\* The error decoders

\* The value handed to decodeEVMError carries a data payload: extractErrorData
\* finds one, or would if the value could be read.
CarriesData(error) == ~IsNullish(error) /\ extractErrorData(error).data # <<>>

\* C23: decodeEVMError and decodeWasmError return a record with type and message
\* for every value, null, undefined and primitives included, and never throw;
\* the record of decodeEVMError has raw whenever the value carried a data payload.
C23_DecodersTotal ==
    pc["p1"] = "decode_done" =>
        LET result == loc["p1"].response[1]
        IN /\ ~Threw(result)
           /\ {"type", "message"} \subseteq DOMAIN result
           /\ (req["p1"].kind = "decodeEVMError" /\ CarriesData(req["p1"].error)) =>
                 "raw" \in DOMAIN result

\* The value is recognised as the module variant of a dispatch error.
IsModuleVariant(error) == Flag(error, "isModule") \/ Has(error, "module")

\* C24: for a dispatch error with isModule true, or an object with a module
\* sub-field, decodeWasmError returns type module whatever other probes the value
\* answers; when the metadata lookup raises, the message is "Unknown module error".
C24_ModuleTakesPrecedence ==
    (/\ pc["p1"] = "decode_done"
     /\ req["p1"].kind = "decodeWasmError"
     /\ IsModuleVariant(req["p1"].error)) =>
        LET result == loc["p1"].response[1]
        IN /\ result.type = "module"
           /\ req["p1"].api.findMetaError = "raises" =>
                 result.message = "Unknown module error"

---------------------------------------------------------------------------
\* Balance reads that fail

\* The zero snapshot of either kind: zero native balance, no fungible.
IsZeroSnapshot(snapshot) ==
    IF "assets" \in DOMAIN snapshot
    THEN snapshot = [native |-> [free |-> 0, reserved |-> 0], assets |-> EmptyMap]
    ELSE snapshot = [native |-> 0, tokens |-> EmptyMap]

\* C25: a native balance read that raises aborts neither the capture nor the
\* simulation: the capture returns a map with every address asked for, the
\* addresses whose read raised with the zero snapshot, and the run's body does
\* not end in the read's error.
C25_ReadFailureSwallowed ==
    \A p \in Procs :
        loc[p].failedCapture # <<>> =>
            LET capture == loc[p].failedCapture[1]
            IN /\ capture.result # <<>>
               /\ \A i \in DOMAIN capture.addresses :
                     MapHas(capture.result[1], toLowerCase(capture.addresses[i]))
               /\ \A a \in capture.failing :
                     IsZeroSnapshot(capture.result[1].val[toLowerCase(a)])
               /\ loc[p].bodyError # <<>> =>
                     loc[p].bodyError[1].message # "eth_getBalance failed"

---------------------------------------------------------------------------
\* POST /simulate

\* C26: the kind-A simulator is invoked only for bodies with `transaction` and
\* without `extrinsic`, the kind-B simulator only for bodies with `extrinsic` and
\* without `transaction`; a body with both or neither is answered 400 with no
\* simulator invoked; no request invokes more than one simulator, and a request
\* answered 400 invokes none.
C26_ExactlyOneSimulator ==
    pc["p1"] = "route_done" =>
        LET body == req["p1"].body
            reply == loc["p1"].response[1]
            invoked == SeqToSet(reply.invoked)
            hasTransaction == "transaction" \in DOMAIN body
            hasExtrinsic == "extrinsic" \in DOMAIN body
        IN /\ "simulateTransaction" \in invoked => hasTransaction /\ ~hasExtrinsic
           /\ "simulateWasmTransaction" \in invoked => hasExtrinsic /\ ~hasTransaction
           /\ hasTransaction = hasExtrinsic => reply.status = 400 /\ invoked = {}
           /\ Len(reply.invoked) <= 1
           /\ reply.status = 400 => invoked = {}

\* A body with both fields, each valid on its own, was answered 400.
C26_Witness ==
    /\ pc["p1"] = "route_done"
    /\ {"transaction", "extrinsic"} \subseteq DOMAIN req["p1"].body
    /\ InvalidEvm(req["p1"].body) = <<>>
    /\ "rawHex" \in DOMAIN req["p1"].body.extrinsic
    /\ loc["p1"].response[1].status = 400
    /\ loc["p1"].response[1].invoked = <<>>

\* C27: for a request that passes validation the status is 200 exactly when the
\* simulator resolved with success = true, 422 exactly when it resolved with
\* success = false, and 500 exactly when the simulator call rejected.
C27_StatusOfOutcome ==
    (pc["p1"] = "route_done" /\ loc["p1"].response[1].invoked # <<>>) =>
        LET outcome == req["p1"].outcome
            status == loc["p1"].response[1].status
        IN /\ status = 200 <=> (outcome.resolved /\ outcome.success)
           /\ status = 422 <=> (outcome.resolved /\ ~outcome.success)
           /\ status = 500 <=> ~outcome.resolved

\* A valid kind-A request whose simulation resolved with success = false was
\* answered 422 with the simulator's response.
C27_Witness ==
    /\ pc["p1"] = "route_done"
    /\ loc["p1"].response[1].invoked = <<"simulateTransaction">>
    /\ req["p1"].outcome = [resolved |-> TRUE, success |-> FALSE]
    /\ loc["p1"].response[1].status = 422
    /\ loc["p1"].response[1].json = req["p1"].outcome

---------------------------------------------------------------------------
\* extractTransferRecipient

\* Bytes of calldata after the 4-byte selector (two characters a byte).
PayloadBytes(data) == (data.length - SelectorLength) \div 2

\* C28: the address of calldata bytes [4,36) is returned only for selector
\* 0xa9059cbb with a payload of at least 64 bytes, the address of bytes [36,68)
\* only for selector 0x23b872dd with a payload of at least 96 bytes, and every
\* other input (absent or empty data, another selector, a shorter payload, a
\* malformed address in the slot) gives none.
C28_RecipientOnlyFromFullCalldata ==
    pc["p1"] = "extract_done" =>
        LET data == req["p1"].data
            recipient == loc["p1"].extracted
            isTransfer == /\ data.length >= SelectorLength
                          /\ toLowerCase(data.selector) = "0xa9059cbb"
                          /\ PayloadBytes(data) >= 64
            isTransferFrom == /\ data.length >= SelectorLength
                              /\ toLowerCase(data.selector) = "0x23b872dd"
                              /\ PayloadBytes(data) >= 96
        IN /\ (recipient # <<>> /\ recipient = <<data.slot1>>) => isTransfer
           /\ (recipient # <<>> /\ recipient = <<data.slot2>>) => isTransferFrom
           /\ recipient # <<>> =>
                \/ isTransfer /\ isAddress(data.slot1) /\ recipient = <<data.slot1>>
                \/ isTransferFrom /\ isAddress(data.slot2) /\ recipient = <<data.slot2>>

---------------------------------------------------------------------------
\* buildAddressState

\* Balance of a snapshot for a row key: "null" is the native token, any other
\* key a token contract, 0 when the snapshot has no such token.
BalanceIn(snapshot, key) ==
    IF key = "null" THEN snapshot.native
    ELSE IF key \in DOMAIN snapshot.tokens.val THEN snapshot.tokens.val[key]
    ELSE 0

\* rows lists "null" first and then each key of tokenKeys exactly once, each
\* with its balance in the snapshot.
ListsNativeThenTokens(rows, snapshot, tokenKeys) ==
    /\ Len(rows) = 1 + Cardinality(tokenKeys)
    /\ rows[1].contractAddress = "null"
    /\ {rows[i].contractAddress : i \in 2..Len(rows)} = tokenKeys
    /\ \A i \in DOMAIN rows : rows[i].balance = BalanceIn(snapshot, rows[i].contractAddress)

\* C29: before[] and after[] list the native token first and then every token
\* of the union of the two snapshots' token keys, a token missing on one side
\* counting as 0; changes[] has an entry for a token exactly when after - before
\* is not 0, and its delta is after - before.
C29_AddressStateRows ==
    pc["p1"] = "build_done" =>
        LET before == req["p1"].before
            after == req["p1"].after
            state == loc["p1"].response[1]
            tokenKeys == SeqToSet(before.tokens.keys) \cup SeqToSet(after.tokens.keys)
        IN /\ ListsNativeThenTokens(state.before, before, tokenKeys)
           /\ ListsNativeThenTokens(state.after, after, tokenKeys)
           /\ \A key \in tokenKeys \cup {"null"} :
                LET entries == {i \in DOMAIN state.changes :
                                   state.changes[i].contractAddress = key}
                    delta == BalanceIn(after, key) - BalanceIn(before, key)
                IN /\ Cardinality(entries) = IF delta # 0 THEN 1 ELSE 0
                   /\ \A i \in entries : state.changes[i].delta = delta
           /\ \A i \in DOMAIN state.changes :
                state.changes[i].contractAddress \in tokenKeys \cup {"null"}

\* A token only the AFTER snapshot has, with balance 1, next to a token only
\* the BEFORE snapshot has, with balance 0: the first is a change of +1 from a
\* missing balance, the second is listed and is no change.
C29_Witness ==
    /\ pc["p1"] = "build_done"
    /\ req["p1"].before.tokens = MapSet(EmptyMap, "t", 0)
    /\ req["p1"].after.tokens = MapSet(EmptyMap, "u", 1)
    /\ req["p1"].before.native = req["p1"].after.native
    /\ Len(loc["p1"].response[1].before) = 3
    /\ loc["p1"].response[1].changes =
          <<[contractAddress |-> "u", before |-> 0, after |-> 1, delta |-> 1]>>

---------------------------------------------------------------------------
\* Order of the backend operations of a kind-B run

\* The operations reset() makes: dev_setHead, or disconnect and connect.
HeadResetOps ==
    {"setHead", "setHead-failed", "disconnect", "disconnect-failed", "connect",
     "connect-failed"}

\* The step of the run an operation belongs to, whether it succeeded or raised.
StageOf(op) ==
    CASE op \in HeadResetOps -> "reset"
      [] op = "paymentInfo-failed" -> "paymentInfo"
      [] op = "nonce-failed" -> "nonce"
      [] op = "submit-failed" -> "submit"
      [] op = "newBlock-failed" -> "newBlock"
      [] op = "events-failed" -> "events"
      [] OTHER -> op

\* The steps of a run in the order it made them, one entry for each reset().
RECURSIVE StagesOf(_)
StagesOf(ops) ==
    IF ops = <<>> THEN <<>>
    ELSE LET n == Len(ops)
             rest == StagesOf(SubSeq(ops, 1, n - 1))
             stage == StageOf(ops[n])
         IN IF stage = "reset" /\ rest # <<>> /\ rest[Len(rest)] = "reset"
            THEN rest ELSE Append(rest, stage)

BodyOrderB ==
    <<"reset", "captureBefore", "paymentInfo", "nonce", "submit", "newBlock", "events">>

IsPrefixOf(s, t) == Len(s) <= Len(t) /\ s = SubSeq(t, 1, Len(s))

\* Position of the first occurrence of op in ops, 0 when there is none.
FirstIndex(ops, op) ==
    IF \E i \in DOMAIN ops : ops[i] = op
    THEN CHOOSE i \in DOMAIN ops : ops[i] = op /\ \A j \in 1..(i - 1) : ops[j] # op
    ELSE 0

\* C30: a kind-B run that reaches submission makes its backend operations in
\* the order head-reset, BEFORE capture, payment info, sender nonce,
\* author_submitExtrinsic, dev_newBlock, system events, head-reset; no block is
\* produced before the extrinsic is submitted, events are not read before the
\* block is produced, and BEFORE capture and payment info are not taken after the
\* submission.
C30_OperationOrderB ==
    \A p \in Procs :
        req[p].kind = "B" =>
            LET ops == loc[p].ops
                stages == StagesOf(ops)
                submitted == FirstIndex(ops, "submit")
                produced == FirstIndex(ops, "newBlock")
            IN /\ (\E i \in DOMAIN stages : stages[i] = "submit") =>
                    \/ IsPrefixOf(stages, BodyOrderB)
                    \/ /\ stages[Len(stages)] = "reset"
                       /\ IsPrefixOf(SubSeq(stages, 1, Len(stages) - 1), BodyOrderB)
               /\ (pc[p] = "b_return" /\ submitted > 0) => stages[Len(stages)] = "reset"
               /\ \A i \in DOMAIN ops :
                    /\ ops[i] \in {"newBlock", "newBlock-failed"} =>
                          submitted > 0 /\ submitted < i
                    /\ ops[i] \in {"events", "events-failed"} => produced > 0 /\ produced < i
                    /\ ops[i] \in {"captureBefore", "paymentInfo", "paymentInfo-failed"} =>
                          \A j \in 1..(i - 1) : ops[j] \notin {"submit", "submit-failed"}
               /\ pc[p] = "b_newblock" => chop.pool # <<>>

\* A kind-B run that made every operation of the list, its final reset through
\* disconnect and connect, and returns a response.
C30_Witness ==
    \E p \in Procs :
        /\ pc[p] = "b_return"
        /\ req[p].kind = "B"
        /\ loc[p].response # <<>>
        /\ StagesOf(loc[p].ops) = Append(BodyOrderB, "reset")
        /\ LastOp(p) = "connect"

---------------------------------------------------------------------------
\* Order of the prologue of a kind-A run

ImpersonateOps == {"impersonate", "impersonate-failed"}

SendOps == {"send", "send-failed"}

\* C31: a kind-A run takes the snapshot, then captures BEFORE for the initial
\* tracked set, then impersonates the sender, then sends; nothing is sent and no
\* account is impersonated before the snapshot ID is obtained and the initial
\* BEFORE capture has completed.
C31_PrologueOrderA ==
    \A p \in Procs :
        req[p].kind = "A" =>
            LET ops == loc[p].ops
                snapshot == FirstIndex(ops, "snapshot")
                captured == FirstIndex(ops, "captureBefore")
            IN /\ \A i \in DOMAIN ops :
                    /\ ops[i] \in ImpersonateOps \cup SendOps =>
                          /\ snapshot > 0 /\ snapshot < captured /\ captured < i
                          /\ loc[p].snapshotId # 0
                          /\ SeqToSet(InitialTracked(req[p]))
                                \subseteq DOMAIN loc[p].balancesBefore.val
                    /\ ops[i] \in SendOps =>
                          \E j \in 1..(i - 1) : ops[j] = "impersonate"
                    /\ ops[i] = "captureBefore" => snapshot > 0 /\ snapshot < i
               /\ loc[p].impersonating =>
                    loc[p].snapshotId # 0 /\ captured > 0
               /\ pc[p] \in {"a_impersonate", "a_send"} =>
                    anvil.chain = loc[p].snapState[1]

\* A kind-A run that went through the four steps in order and is returning a
\* success response.
C31_Witness ==
    \E p \in Procs :
        /\ pc[p] = "a_return"
        /\ req[p].kind = "A"
        /\ Len(loc[p].ops) >= 6
        /\ SubSeq(loc[p].ops, 1, 6) =
              <<"snapshot", "captureBefore", "feeData", "impersonate", "getSigner", "send">>
        /\ loc[p].response # <<>>
        /\ loc[p].response[1].success

---------------------------------------------------------------------------
\* Nested calls of a structured extrinsic

\* The values at which a call definition was left as the request gave it:
\* elements of an args array or of an array inside one, at any depth.
RECURSIVE UnbuiltIn(_)
UnbuiltIn(value) ==
    CASE value.t = "callDef" -> {value}
      [] value.t = "call" ->
            UNION {UnbuiltIn(value.args[i]) : i \in DOMAIN value.args}
      [] value.t = "array" ->
            UNION {UnbuiltIn(value.items[i]) : i \in DOMAIN value.items}
      [] OTHER -> {}

\* C32: in the extrinsic built from a structured request every {pallet, method,
\* args} element of an args array, directly in the top-level args or in a nested
\* array, at any depth, has been built into a runtime call.
C32_NestedCallsBuilt ==
    pc["p1"] = "buildExtrinsic_done" => UnbuiltIn(loc["p1"].response[1]) = {}

---------------------------------------------------------------------------
\* Metadata caching

\* C33: the metadata of a token (kind A) or an asset (kind B) is queried on
\* chain at most once in the life of the process; later simulations tracking it
\* use the cached symbol and decimals.
C33_MetadataQueriedOnce ==
    /\ \A k \in TokenKeys : metadata.tokenQueries[k] <= 1
    /\ \A id \in AssetIds : metadata.assetQueries[id] <= 1

---------------------------------------------------------------------------
\* formatBalance

\* The number a digit string denotes.
RECURSIVE NumberOf(_)
NumberOf(digits) ==
    IF digits = <<>> THEN 0
    ELSE NumberOf(SubSeq(digits, 1, Len(digits) - 1)) * 10 + digits[Len(digits)]

\* C34: for every non-negative fee and every decimals value the formatted fee is
\* floor(fee / 10^decimals), a dot, and the first six digits of the fractional
\* part zero-padded to `decimals` digits: always exactly 6 fractional digits.
C34_SixFractionalDigits ==
    pc["p1"] = "format_done" =>
        LET fee == req["p1"].balance
            decimals == req["p1"].decimals
            formatted == loc["p1"].response[1]
            fractional == fee % Pow10(decimals)
        IN /\ NumberOf(formatted.whole) = fee \div Pow10(decimals)
           /\ Len(formatted.fraction) = 6
           /\ \A i \in 1..6 :
                i <= Len(formatted.fraction) =>
                    formatted.fraction[i] =
                        IF i <= decimals THEN (fractional \div Pow10(decimals - i)) % 10
                        ELSE 0

---------------------------------------------------------------------------
\* The catch block of a kind-B run

\* Number of reset() calls in a run's operations: a call starts with dev_setHead,
\* or with disconnect when no fork block is stored.
ResetCalls(ops) ==
    Cardinality({i \in DOMAIN ops :
                    \/ ops[i] \in {"setHead", "setHead-failed"}
                    \/ /\ ops[i] \in {"disconnect", "disconnect-failed"}
                       /\ (i = 1 \/ ops[i - 1] # "setHead-failed")})

\* The errors reset() can raise.
ResetErrors == {"api.disconnect failed", "ApiPromise.create failed", "getHeader failed"}

\* A step of caller p's kind-B run after the initial reset has raised, and the
\* run is about to settle.
RaisedAfterResetB(p) ==
    /\ pc[p] = "b_return"
    /\ req[p].kind = "B"
    /\ loc[p].ops # <<>>
    /\ loc[p].bodyError # <<>> \/ LastOp(p) = "properties-failed"

\* C35: when a step of a kind-B run after the initial head-reset raises (a
\* head-reset inside the body included), exactly one further head-reset is
\* attempted before the call rejects; if it succeeds the call rejects with the
\* original error unchanged, if it raises the call rejects with a FATAL error
\* naming the original error's message and the reset error; no response is
\* returned either way.
C35_OneResetThenReject ==
    \A p \in Procs :
        RaisedAfterResetB(p) =>
            LET ops == loc[p].ops
                \* resets up to and including the step that raised
                before == IF \E i \in DOMAIN ops : ops[i] = "events" THEN 2 ELSE 1
            IN /\ ResetCalls(ops) = before + 1
               /\ loc[p].response = <<>>
               /\ loc[p].thrown # <<>>
               /\ LastOp(p) \in {"setHead", "connect"} => loc[p].thrown = loc[p].bodyError
               /\ LastOp(p) \notin {"setHead", "connect"} =>
                    /\ loc[p].thrown[1].message
                          = "FATAL: State cleanup failed after simulation error"
                    /\ Naming(loc[p].bodyError[1]) \subseteq loc[p].thrown[1].embeds
                    /\ loc[p].thrown[1].embeds \cap ResetErrors # {}

---------------------------------------------------------------------------
\* Reverts of one kind-A run

\* C36: within a kind-A run evm_revert is invoked at most once on the run's
\* snapshot ID; the final restore never reverts to a snapshot ID an earlier
\* revert of the run has already reverted to.
C36_RevertInvokedOnce ==
    \A p \in Procs :
        req[p].kind = "A" =>
            LET ops == loc[p].ops
                reverts == {i \in DOMAIN ops : ops[i] \in RevertOps}
            IN /\ Cardinality(reverts) <= 1
               /\ \A i \in reverts, j \in reverts : i < j => ops[i] # "revert"

---------------------------------------------------------------------------
\* Impersonation cleanup

\* C37: whenever the impersonate RPC has succeeded for the sender during a
\* kind-A run, also when obtaining the signer fails after it, stopImpersonating
\* is issued for the sender before the run ends.
C37_ImpersonationStopped ==
    \A p \in Procs :
        (pc[p] = "a_return" /\ req[p].kind = "A") =>
            \A i \in DOMAIN loc[p].ops :
                loc[p].ops[i] = "impersonate" =>
                    \E j \in DOMAIN loc[p].ops : j > i /\ loc[p].ops[j] \in StopOps

---------------------------------------------------------------------------
\* Success of a kind-B run and the produced block

\* C38: a kind-B run returns success = true only if the produced block executed
\* the injected extrinsic: when no ApplyExtrinsic event record of the block
\* belongs to the submitted extrinsic the run does not return success = true.
C38_SuccessOnlyIfExecuted ==
    \A p \in Procs :
        (pc[p] = "b_return" /\ req[p].kind = "B" /\ loc[p].response # <<>>) =>
            (loc[p].response[1].success => loc[p].injectedEvents # <<>>)

---------------------------------------------------------------------------
\* Balances of a kind-B success response

\* The address states a kind-B state report lists: the sender, the recipient
\* when present, and every entry of otherAffected.
StatesOfReportB(stateChanges) ==
    {stateChanges.sender}
    \cup SeqToSet(stateChanges.recipient)
    \cup SeqToSet(stateChanges.otherAffected)

\* C39: every before and after balance in a kind-B success response is a
\* non-negative integer, also for the addresses of otherAffected that were not
\* part of the BEFORE capture and whose net event delta is negative.
C39_BalancesNonNegative ==
    \A p \in Procs :
        (pc[p] = "b_return" /\ req[p].kind = "B" /\ loc[p].response # <<>>
         /\ loc[p].response[1].success) =>
            \A state \in StatesOfReportB(loc[p].response[1].stateChanges) :
                /\ \A i \in DOMAIN state.before : state.before[i].balance \in Nat
                /\ \A i \in DOMAIN state.after : state.after[i].balance \in Nat

====
